---------------------------- MODULE Spec2Model ----------------------------
(***************************************************************************)
(* Model of the pricing / readiness core of the mortgage CRM:              *)
(*   utils/llpa.py, utils/rate_calculator.py, utils/optimal_threshold.py.  *)
(*                                                                         *)
(* Numbers.  Python floats that carry rates, points and LTVs are modelled  *)
(* as fixed-point integers with five decimals: Num(1) = 100000, so the     *)
(* table entry 0.375 is 37500, an LTV of 80.01 is 8001000 and the decimal  *)
(* rate 0.065 is 6500.  Every value the modelled code adds or compares is  *)
(* a multiple of 0.00001, so sums, differences and comparisons are exact.  *)
(* Credit scores are Python ints and loan amounts are whole dollars: both  *)
(* are plain integers.  None is the empty tuple and a present optional     *)
(* value x is <<x>>.  A Python dict is a function on its string keys.      *)
(* A call either returns (Ok) or raises (Raise): a subscript d[k] of a     *)
(* missing key raises KeyError, d.get(k, default) never raises.            *)
(***************************************************************************)
EXTENDS Integers, Sequences, FiniteSets, TLC

\* pc, op, args, ret: a call of one function of the program, its arguments, its
\* position and its result; db: the tables of the SQLite database; session:
\* Streamlit's st.session_state of each browser session
VARIABLES pc, op, args, ret, db, session

vars == <<pc, op, args, ret, db, session>>

-----------------------------------------------------------------------------
(* Python values *)

Num(n) == n * 100000

None == <<>>

Some(x) == <<x>>

Ok(v) == [exc |-> "none", val |-> v]

Raise(e) == [exc |-> e, val |-> None]

\* d[k]: KeyError when k is not a key of d
Subscript(d, k) == IF k \in DOMAIN d THEN Ok(d[k]) ELSE Raise("KeyError")

\* d.get(k, default)
Get(d, k, default) == IF k \in DOMAIN d THEN d[k] ELSE default

\* sum(...) over a finite set of keys of a dict of numbers
RECURSIVE SumOver(_, _)
SumOver(d, keys) ==
    IF keys = {} THEN 0
    ELSE LET k == CHOOSE x \in keys : TRUE
         IN  d[k] + SumOver(d, keys \ {k})

-----------------------------------------------------------------------------
(* utils/llpa.py *)

CONFORMING_LIMIT_2025 == 806500

get_ltv_bucket(ltv) ==
    IF ltv <= Num(30) THEN "<=30"
    ELSE IF ltv <= Num(60) THEN "30.01-60"
    ELSE IF ltv <= Num(70) THEN "60.01-70"
    ELSE IF ltv <= Num(75) THEN "70.01-75"
    ELSE IF ltv <= Num(80) THEN "75.01-80"
    ELSE IF ltv <= Num(85) THEN "80.01-85"
    ELSE IF ltv <= Num(90) THEN "85.01-90"
    ELSE IF ltv <= Num(95) THEN "90.01-95"
    ELSE ">95"

\* mutant: the cash-out path uses the nine-bucket function
get_ltv_bucket_cashout_uncapped(ltv) == get_ltv_bucket(ltv)

get_ltv_bucket_cashout(ltv) ==
    IF ltv <= Num(30) THEN "<=30"
    ELSE IF ltv <= Num(60) THEN "30.01-60"
    ELSE IF ltv <= Num(70) THEN "60.01-70"
    ELSE IF ltv <= Num(75) THEN "70.01-75"
    ELSE "75.01-80"

\* mutant: the bucket edges are compared with > instead of >=
get_credit_score_bucket_exclusive(credit_score) ==
    IF credit_score > 780 THEN ">=780"
    ELSE IF credit_score > 760 THEN "760-779"
    ELSE IF credit_score > 740 THEN "740-759"
    ELSE IF credit_score > 720 THEN "720-739"
    ELSE IF credit_score > 700 THEN "700-719"
    ELSE IF credit_score > 680 THEN "680-699"
    ELSE IF credit_score > 660 THEN "660-679"
    ELSE IF credit_score > 640 THEN "640-659"
    ELSE "<=639"

get_credit_score_bucket(credit_score) ==
    IF credit_score >= 780 THEN ">=780"
    ELSE IF credit_score >= 760 THEN "760-779"
    ELSE IF credit_score >= 740 THEN "740-759"
    ELSE IF credit_score >= 720 THEN "720-739"
    ELSE IF credit_score >= 700 THEN "700-719"
    ELSE IF credit_score >= 680 THEN "680-699"
    ELSE IF credit_score >= 660 THEN "660-679"
    ELSE IF credit_score >= 640 THEN "640-659"
    ELSE "<=639"

PURCHASE_CREDIT_SCORE_LTV ==
    ">=780" :> ("<=30" :> 0 @@ "30.01-60" :> 0 @@ "60.01-70" :> 0
         @@ "70.01-75" :> 0 @@ "75.01-80" :> 37500 @@ "80.01-85" :> 37500
         @@ "85.01-90" :> 25000 @@ "90.01-95" :> 25000 @@ ">95" :> 12500)
 @@ "760-779" :> ("<=30" :> 0 @@ "30.01-60" :> 0 @@ "60.01-70" :> 0
         @@ "70.01-75" :> 25000 @@ "75.01-80" :> 62500 @@ "80.01-85" :> 62500
         @@ "85.01-90" :> 50000 @@ "90.01-95" :> 50000 @@ ">95" :> 25000)
 @@ "740-759" :> ("<=30" :> 0 @@ "30.01-60" :> 0 @@ "60.01-70" :> 12500
         @@ "70.01-75" :> 37500 @@ "75.01-80" :> 87500 @@ "80.01-85" :> 100000
         @@ "85.01-90" :> 75000 @@ "90.01-95" :> 62500 @@ ">95" :> 50000)
 @@ "720-739" :> ("<=30" :> 0 @@ "30.01-60" :> 0 @@ "60.01-70" :> 25000
         @@ "70.01-75" :> 75000 @@ "75.01-80" :> 125000 @@ "80.01-85" :> 125000
         @@ "85.01-90" :> 100000 @@ "90.01-95" :> 87500 @@ ">95" :> 75000)
 @@ "700-719" :> ("<=30" :> 0 @@ "30.01-60" :> 0 @@ "60.01-70" :> 37500
         @@ "70.01-75" :> 87500 @@ "75.01-80" :> 137500 @@ "80.01-85" :> 150000
         @@ "85.01-90" :> 125000 @@ "90.01-95" :> 112500 @@ ">95" :> 87500)
 @@ "680-699" :> ("<=30" :> 0 @@ "30.01-60" :> 0 @@ "60.01-70" :> 62500
         @@ "70.01-75" :> 112500 @@ "75.01-80" :> 175000 @@ "80.01-85" :> 187500
         @@ "85.01-90" :> 150000 @@ "90.01-95" :> 137500 @@ ">95" :> 112500)
 @@ "660-679" :> ("<=30" :> 0 @@ "30.01-60" :> 0 @@ "60.01-70" :> 75000
         @@ "70.01-75" :> 137500 @@ "75.01-80" :> 187500 @@ "80.01-85" :> 212500
         @@ "85.01-90" :> 175000 @@ "90.01-95" :> 162500 @@ ">95" :> 125000)
 @@ "640-659" :> ("<=30" :> 0 @@ "30.01-60" :> 0 @@ "60.01-70" :> 112500
         @@ "70.01-75" :> 150000 @@ "75.01-80" :> 225000 @@ "80.01-85" :> 250000
         @@ "85.01-90" :> 200000 @@ "90.01-95" :> 187500 @@ ">95" :> 150000)
 @@ "<=639" :> ("<=30" :> 0 @@ "30.01-60" :> 12500 @@ "60.01-70" :> 150000
         @@ "70.01-75" :> 212500 @@ "75.01-80" :> 275000 @@ "80.01-85" :> 287500
         @@ "85.01-90" :> 262500 @@ "90.01-95" :> 225000 @@ ">95" :> 175000)

LIMITED_CASHOUT_CREDIT_SCORE_LTV ==
    ">=780" :> ("<=30" :> 0 @@ "30.01-60" :> 0 @@ "60.01-70" :> 0
         @@ "70.01-75" :> 12500 @@ "75.01-80" :> 50000 @@ "80.01-85" :> 62500
         @@ "85.01-90" :> 50000 @@ "90.01-95" :> 37500 @@ ">95" :> 37500)
 @@ "760-779" :> ("<=30" :> 0 @@ "30.01-60" :> 0 @@ "60.01-70" :> 12500
         @@ "70.01-75" :> 37500 @@ "75.01-80" :> 87500 @@ "80.01-85" :> 100000
         @@ "85.01-90" :> 75000 @@ "90.01-95" :> 62500 @@ ">95" :> 62500)
 @@ "740-759" :> ("<=30" :> 0 @@ "30.01-60" :> 0 @@ "60.01-70" :> 25000
         @@ "70.01-75" :> 75000 @@ "75.01-80" :> 112500 @@ "80.01-85" :> 137500
         @@ "85.01-90" :> 112500 @@ "90.01-95" :> 100000 @@ ">95" :> 100000)
 @@ "720-739" :> ("<=30" :> 0 @@ "30.01-60" :> 0 @@ "60.01-70" :> 50000
         @@ "70.01-75" :> 100000 @@ "75.01-80" :> 162500 @@ "80.01-85" :> 175000
         @@ "85.01-90" :> 150000 @@ "90.01-95" :> 125000 @@ ">95" :> 125000)
 @@ "700-719" :> ("<=30" :> 0 @@ "30.01-60" :> 0 @@ "60.01-70" :> 62500
         @@ "70.01-75" :> 125000 @@ "75.01-80" :> 187500 @@ "80.01-85" :> 212500
         @@ "85.01-90" :> 175000 @@ "90.01-95" :> 162500 @@ ">95" :> 162500)
 @@ "680-699" :> ("<=30" :> 0 @@ "30.01-60" :> 0 @@ "60.01-70" :> 87500
         @@ "70.01-75" :> 162500 @@ "75.01-80" :> 225000 @@ "80.01-85" :> 250000
         @@ "85.01-90" :> 212500 @@ "90.01-95" :> 175000 @@ ">95" :> 175000)
 @@ "660-679" :> ("<=30" :> 0 @@ "30.01-60" :> 12500 @@ "60.01-70" :> 112500
         @@ "70.01-75" :> 187500 @@ "75.01-80" :> 250000 @@ "80.01-85" :> 300000
         @@ "85.01-90" :> 237500 @@ "90.01-95" :> 212500 @@ ">95" :> 212500)
 @@ "640-659" :> ("<=30" :> 0 @@ "30.01-60" :> 25000 @@ "60.01-70" :> 137500
         @@ "70.01-75" :> 212500 @@ "75.01-80" :> 287500 @@ "80.01-85" :> 337500
         @@ "85.01-90" :> 287500 @@ "90.01-95" :> 250000 @@ ">95" :> 250000)
 @@ "<=639" :> ("<=30" :> 0 @@ "30.01-60" :> 37500 @@ "60.01-70" :> 175000
         @@ "70.01-75" :> 250000 @@ "75.01-80" :> 350000 @@ "80.01-85" :> 387500
         @@ "85.01-90" :> 362500 @@ "90.01-95" :> 250000 @@ ">95" :> 250000)

CASHOUT_CREDIT_SCORE_LTV ==
    ">=780" :> ("<=30" :> 37500 @@ "30.01-60" :> 37500 @@ "60.01-70" :> 62500
         @@ "70.01-75" :> 87500 @@ "75.01-80" :> 137500)
 @@ "760-779" :> ("<=30" :> 37500 @@ "30.01-60" :> 37500 @@ "60.01-70" :> 87500
         @@ "70.01-75" :> 125000 @@ "75.01-80" :> 187500)
 @@ "740-759" :> ("<=30" :> 37500 @@ "30.01-60" :> 37500 @@ "60.01-70" :> 100000
         @@ "70.01-75" :> 162500 @@ "75.01-80" :> 237500)
 @@ "720-739" :> ("<=30" :> 37500 @@ "30.01-60" :> 50000 @@ "60.01-70" :> 137500
         @@ "70.01-75" :> 200000 @@ "75.01-80" :> 275000)
 @@ "700-719" :> ("<=30" :> 37500 @@ "30.01-60" :> 50000 @@ "60.01-70" :> 162500
         @@ "70.01-75" :> 262500 @@ "75.01-80" :> 325000)
 @@ "680-699" :> ("<=30" :> 37500 @@ "30.01-60" :> 62500 @@ "60.01-70" :> 200000
         @@ "70.01-75" :> 287500 @@ "75.01-80" :> 375000)
 @@ "660-679" :> ("<=30" :> 37500 @@ "30.01-60" :> 87500 @@ "60.01-70" :> 275000
         @@ "70.01-75" :> 400000 @@ "75.01-80" :> 475000)
 @@ "640-659" :> ("<=30" :> 37500 @@ "30.01-60" :> 137500 @@ "60.01-70" :> 312500
         @@ "70.01-75" :> 462500 @@ "75.01-80" :> 512500)
 @@ "<=639" :> ("<=30" :> 37500 @@ "30.01-60" :> 137500 @@ "60.01-70" :> 337500
         @@ "70.01-75" :> 487500 @@ "75.01-80" :> 512500)

CONDO_ADJUSTMENT ==
    "<=30" :> 0 @@ "30.01-60" :> 0 @@ "60.01-70" :> 12500
    @@ "70.01-75" :> 12500 @@ "75.01-80" :> 75000 @@ "80.01-85" :> 75000
    @@ "85.01-90" :> 75000 @@ "90.01-95" :> 75000 @@ ">95" :> 75000

MULTI_UNIT_ADJUSTMENT ==
    "<=30" :> 0 @@ "30.01-60" :> 0 @@ "60.01-70" :> 37500
    @@ "70.01-75" :> 37500 @@ "75.01-80" :> 62500 @@ "80.01-85" :> 62500
    @@ "85.01-90" :> 62500 @@ "90.01-95" :> 62500 @@ ">95" :> 62500

MANUFACTURED_ADJUSTMENT ==
    "<=30" :> 50000 @@ "30.01-60" :> 50000 @@ "60.01-70" :> 50000
    @@ "70.01-75" :> 50000 @@ "75.01-80" :> 50000 @@ "80.01-85" :> 50000
    @@ "85.01-90" :> 50000 @@ "90.01-95" :> 50000 @@ ">95" :> 50000

INVESTMENT_PROPERTY_ADJUSTMENT ==
    "<=30" :> 112500 @@ "30.01-60" :> 112500 @@ "60.01-70" :> 162500
    @@ "70.01-75" :> 212500 @@ "75.01-80" :> 337500 @@ "80.01-85" :> 412500
    @@ "85.01-90" :> 412500 @@ "90.01-95" :> 412500 @@ ">95" :> 412500

SECOND_HOME_ADJUSTMENT ==
    "<=30" :> 112500 @@ "30.01-60" :> 112500 @@ "60.01-70" :> 162500
    @@ "70.01-75" :> 212500 @@ "75.01-80" :> 337500 @@ "80.01-85" :> 412500
    @@ "85.01-90" :> 412500 @@ "90.01-95" :> 412500 @@ ">95" :> 412500

HIGH_BALANCE_FIXED ==
    "<=30" :> 50000 @@ "30.01-60" :> 50000 @@ "60.01-70" :> 75000
    @@ "70.01-75" :> 75000 @@ "75.01-80" :> 100000 @@ "80.01-85" :> 100000
    @@ "85.01-90" :> 100000 @@ "90.01-95" :> 100000 @@ ">95" :> 100000

HIGH_BALANCE_ARM ==
    "<=30" :> 125000 @@ "30.01-60" :> 125000 @@ "60.01-70" :> 150000
    @@ "70.01-75" :> 150000 @@ "75.01-80" :> 250000 @@ "80.01-85" :> 250000
    @@ "85.01-90" :> 250000 @@ "90.01-95" :> 275000 @@ ">95" :> 275000

SUBORDINATE_FINANCING_ADJUSTMENT ==
    "<=30" :> 62500 @@ "30.01-60" :> 62500 @@ "60.01-70" :> 62500
    @@ "70.01-75" :> 87500 @@ "75.01-80" :> 112500 @@ "80.01-85" :> 112500
    @@ "85.01-90" :> 112500 @@ "90.01-95" :> 187500 @@ ">95" :> 187500

get_credit_score_ltv_adjustment(credit_score, ltv, loan_purpose) ==
    LET score_bucket == get_credit_score_bucket(credit_score)
        row(T) == Subscript(T, score_bucket)
        cell(T, ltv_bucket) ==
            IF row(T).exc # "none" THEN row(T)
            ELSE Subscript(row(T).val, ltv_bucket)
    IN  IF loan_purpose = "Purchase"
          THEN cell(PURCHASE_CREDIT_SCORE_LTV, get_ltv_bucket(ltv))
        ELSE IF loan_purpose = "Rate/Term Refinance"
          THEN cell(LIMITED_CASHOUT_CREDIT_SCORE_LTV, get_ltv_bucket(ltv))
        ELSE IF loan_purpose = "Cash-Out Refinance"
          THEN cell(CASHOUT_CREDIT_SCORE_LTV, get_ltv_bucket_cashout(ltv))
        ELSE Ok(0)

get_property_type_adjustment(property_type, ltv, loan_purpose) ==
    LET ltv_bucket == IF loan_purpose = "Cash-Out Refinance"
                      THEN get_ltv_bucket_cashout(ltv)
                      ELSE get_ltv_bucket(ltv)
    IN  IF property_type = "Condo"
          THEN Get(CONDO_ADJUSTMENT, ltv_bucket, 0)
        ELSE IF property_type \in {"2-Unit", "3-Unit", "4-Unit"}
          THEN Get(MULTI_UNIT_ADJUSTMENT, ltv_bucket, 0)
        ELSE IF property_type = "Manufactured Home"
          THEN Get(MANUFACTURED_ADJUSTMENT, ltv_bucket, 0)
        ELSE 0

get_occupancy_adjustment(occupancy, ltv, loan_purpose) ==
    LET ltv_bucket == IF loan_purpose = "Cash-Out Refinance"
                      THEN get_ltv_bucket_cashout(ltv)
                      ELSE get_ltv_bucket(ltv)
    IN  IF occupancy = "Investment Property"
          THEN Get(INVESTMENT_PROPERTY_ADJUSTMENT, ltv_bucket, 0)
        ELSE IF occupancy = "Second Home"
          THEN Get(SECOND_HOME_ADJUSTMENT, ltv_bucket, 0)
        ELSE 0

\* mutant: a loan of exactly the conforming limit counts as high balance
get_high_balance_adjustment_at_limit(loan_amount, ltv, is_arm) ==
    IF loan_amount < CONFORMING_LIMIT_2025 THEN 0
    ELSE LET ltv_bucket == get_ltv_bucket(ltv)
         IN  IF is_arm THEN Get(HIGH_BALANCE_ARM, ltv_bucket, 0)
             ELSE Get(HIGH_BALANCE_FIXED, ltv_bucket, 0)

get_high_balance_adjustment(loan_amount, ltv, is_arm) ==
    IF loan_amount <= CONFORMING_LIMIT_2025 THEN 0
    ELSE LET ltv_bucket == get_ltv_bucket(ltv)
         IN  IF is_arm THEN Get(HIGH_BALANCE_ARM, ltv_bucket, 0)
             ELSE Get(HIGH_BALANCE_FIXED, ltv_bucket, 0)

\* mutant: a CLTV equal to the LTV counts as subordinate financing
get_subordinate_financing_adjustment_equal(ltv, cltv) ==
    IF cltv < ltv THEN 0
    ELSE Get(SUBORDINATE_FINANCING_ADJUSTMENT, get_ltv_bucket(ltv), 0)

get_subordinate_financing_adjustment(ltv, cltv) ==
    IF cltv <= ltv THEN 0
    ELSE Get(SUBORDINATE_FINANCING_ADJUSTMENT, get_ltv_bucket(ltv), 0)

\* the five category keys of the adjustments dict, in insertion order
LlpaCategories ==
    {"Credit Score / LTV", "Property Type", "Occupancy", "High Balance",
     "Subordinate Financing"}

\* mutant: only the HomeReady flag waives the LLPAs
calculate_total_llpa_homeready_only(credit_score, ltv, loan_amount, loan_purpose, property_type, occupancy, is_arm, cltv_arg, is_homeready, is_first_time_buyer_low_income) ==
    IF is_homeready
    THEN Ok(   "Credit Score / LTV" :> 0
            @@ "Property Type" :> 0
            @@ "Occupancy" :> 0
            @@ "High Balance" :> 0
            @@ "Subordinate Financing" :> 0
            @@ "Total LLPA" :> 0
            @@ "LLPA Waiver Applied" :> TRUE
            @@ "waiver_reason" :> (IF is_homeready THEN "HomeReady"
                                   ELSE "First-Time Buyer Low Income"))
    ELSE LET cltv == IF cltv_arg = None THEN ltv ELSE cltv_arg[1]
             base == get_credit_score_ltv_adjustment(credit_score, ltv, loan_purpose)
         IN  IF base.exc # "none" THEN base
             ELSE LET adjustments ==
                         "Credit Score / LTV" :> base.val
                      @@ "Property Type" :>
                            get_property_type_adjustment(property_type, ltv, loan_purpose)
                      @@ "Occupancy" :>
                            get_occupancy_adjustment(occupancy, ltv, loan_purpose)
                      @@ "High Balance" :>
                            get_high_balance_adjustment(loan_amount, ltv, is_arm)
                      @@ "Subordinate Financing" :>
                            get_subordinate_financing_adjustment(ltv, cltv)
                      total == SumOver(adjustments, DOMAIN adjustments)
                  IN  Ok(   adjustments
                         @@ "Total LLPA" :> total
                         @@ "LLPA Waiver Applied" :> FALSE)

calculate_total_llpa(credit_score, ltv, loan_amount, loan_purpose, property_type, occupancy, is_arm, cltv_arg, is_homeready, is_first_time_buyer_low_income) ==
    IF is_homeready \/ is_first_time_buyer_low_income
    THEN Ok(   "Credit Score / LTV" :> 0
            @@ "Property Type" :> 0
            @@ "Occupancy" :> 0
            @@ "High Balance" :> 0
            @@ "Subordinate Financing" :> 0
            @@ "Total LLPA" :> 0
            @@ "LLPA Waiver Applied" :> TRUE
            @@ "waiver_reason" :> (IF is_homeready THEN "HomeReady"
                                   ELSE "First-Time Buyer Low Income"))
    ELSE LET cltv == IF cltv_arg = None THEN ltv ELSE cltv_arg[1]
             base == get_credit_score_ltv_adjustment(credit_score, ltv, loan_purpose)
         IN  IF base.exc # "none" THEN base
             ELSE LET adjustments ==
                         "Credit Score / LTV" :> base.val
                      @@ "Property Type" :>
                            get_property_type_adjustment(property_type, ltv, loan_purpose)
                      @@ "Occupancy" :>
                            get_occupancy_adjustment(occupancy, ltv, loan_purpose)
                      @@ "High Balance" :>
                            get_high_balance_adjustment(loan_amount, ltv, is_arm)
                      @@ "Subordinate Financing" :>
                            get_subordinate_financing_adjustment(ltv, cltv)
                      total == SumOver(adjustments, DOMAIN adjustments)
                  IN  Ok(   adjustments
                         @@ "Total LLPA" :> total
                         @@ "LLPA Waiver Applied" :> FALSE)

-----------------------------------------------------------------------------
(* utils/rate_calculator.py *)

rc_CONFORMING_LIMIT_2025 == 806500

rc_get_ltv_bucket(ltv) ==
    IF ltv <= Num(30) THEN "<=30"
    ELSE IF ltv <= Num(60) THEN "30.01-60"
    ELSE IF ltv <= Num(70) THEN "60.01-70"
    ELSE IF ltv <= Num(75) THEN "70.01-75"
    ELSE IF ltv <= Num(80) THEN "75.01-80"
    ELSE IF ltv <= Num(85) THEN "80.01-85"
    ELSE IF ltv <= Num(90) THEN "85.01-90"
    ELSE IF ltv <= Num(95) THEN "90.01-95"
    ELSE ">95"

rc_get_credit_score_bucket(credit_score) ==
    IF credit_score >= 780 THEN ">=780"
    ELSE IF credit_score >= 760 THEN "760-779"
    ELSE IF credit_score >= 740 THEN "740-759"
    ELSE IF credit_score >= 720 THEN "720-739"
    ELSE IF credit_score >= 700 THEN "700-719"
    ELSE IF credit_score >= 680 THEN "680-699"
    ELSE IF credit_score >= 660 THEN "660-679"
    ELSE IF credit_score >= 640 THEN "640-659"
    ELSE "<=639"

rc_PURCHASE_CREDIT_SCORE_LTV ==
    ">=780" :> ("<=30" :> 0 @@ "30.01-60" :> 0 @@ "60.01-70" :> 0
         @@ "70.01-75" :> 0 @@ "75.01-80" :> 37500 @@ "80.01-85" :> 37500
         @@ "85.01-90" :> 25000 @@ "90.01-95" :> 25000 @@ ">95" :> 12500)
 @@ "760-779" :> ("<=30" :> 0 @@ "30.01-60" :> 0 @@ "60.01-70" :> 0
         @@ "70.01-75" :> 25000 @@ "75.01-80" :> 62500 @@ "80.01-85" :> 62500
         @@ "85.01-90" :> 50000 @@ "90.01-95" :> 50000 @@ ">95" :> 25000)
 @@ "740-759" :> ("<=30" :> 0 @@ "30.01-60" :> 0 @@ "60.01-70" :> 12500
         @@ "70.01-75" :> 37500 @@ "75.01-80" :> 87500 @@ "80.01-85" :> 100000
         @@ "85.01-90" :> 75000 @@ "90.01-95" :> 62500 @@ ">95" :> 50000)
 @@ "720-739" :> ("<=30" :> 0 @@ "30.01-60" :> 0 @@ "60.01-70" :> 25000
         @@ "70.01-75" :> 75000 @@ "75.01-80" :> 125000 @@ "80.01-85" :> 125000
         @@ "85.01-90" :> 100000 @@ "90.01-95" :> 87500 @@ ">95" :> 75000)
 @@ "700-719" :> ("<=30" :> 0 @@ "30.01-60" :> 0 @@ "60.01-70" :> 37500
         @@ "70.01-75" :> 87500 @@ "75.01-80" :> 137500 @@ "80.01-85" :> 150000
         @@ "85.01-90" :> 125000 @@ "90.01-95" :> 112500 @@ ">95" :> 87500)
 @@ "680-699" :> ("<=30" :> 0 @@ "30.01-60" :> 0 @@ "60.01-70" :> 62500
         @@ "70.01-75" :> 112500 @@ "75.01-80" :> 175000 @@ "80.01-85" :> 187500
         @@ "85.01-90" :> 150000 @@ "90.01-95" :> 137500 @@ ">95" :> 112500)
 @@ "660-679" :> ("<=30" :> 0 @@ "30.01-60" :> 0 @@ "60.01-70" :> 75000
         @@ "70.01-75" :> 137500 @@ "75.01-80" :> 187500 @@ "80.01-85" :> 212500
         @@ "85.01-90" :> 175000 @@ "90.01-95" :> 162500 @@ ">95" :> 125000)
 @@ "640-659" :> ("<=30" :> 0 @@ "30.01-60" :> 0 @@ "60.01-70" :> 112500
         @@ "70.01-75" :> 150000 @@ "75.01-80" :> 225000 @@ "80.01-85" :> 250000
         @@ "85.01-90" :> 200000 @@ "90.01-95" :> 187500 @@ ">95" :> 150000)
 @@ "<=639" :> ("<=30" :> 0 @@ "30.01-60" :> 12500 @@ "60.01-70" :> 150000
         @@ "70.01-75" :> 212500 @@ "75.01-80" :> 275000 @@ "80.01-85" :> 287500
         @@ "85.01-90" :> 262500 @@ "90.01-95" :> 225000 @@ ">95" :> 175000)

rc_LIMITED_CASHOUT_CREDIT_SCORE_LTV ==
    ">=780" :> ("<=30" :> 0 @@ "30.01-60" :> 0 @@ "60.01-70" :> 0
         @@ "70.01-75" :> 12500 @@ "75.01-80" :> 50000 @@ "80.01-85" :> 62500
         @@ "85.01-90" :> 50000 @@ "90.01-95" :> 37500 @@ ">95" :> 37500)
 @@ "760-779" :> ("<=30" :> 0 @@ "30.01-60" :> 0 @@ "60.01-70" :> 12500
         @@ "70.01-75" :> 37500 @@ "75.01-80" :> 87500 @@ "80.01-85" :> 100000
         @@ "85.01-90" :> 75000 @@ "90.01-95" :> 62500 @@ ">95" :> 62500)
 @@ "740-759" :> ("<=30" :> 0 @@ "30.01-60" :> 0 @@ "60.01-70" :> 25000
         @@ "70.01-75" :> 75000 @@ "75.01-80" :> 112500 @@ "80.01-85" :> 137500
         @@ "85.01-90" :> 112500 @@ "90.01-95" :> 100000 @@ ">95" :> 100000)
 @@ "720-739" :> ("<=30" :> 0 @@ "30.01-60" :> 0 @@ "60.01-70" :> 50000
         @@ "70.01-75" :> 100000 @@ "75.01-80" :> 162500 @@ "80.01-85" :> 175000
         @@ "85.01-90" :> 150000 @@ "90.01-95" :> 125000 @@ ">95" :> 125000)
 @@ "700-719" :> ("<=30" :> 0 @@ "30.01-60" :> 0 @@ "60.01-70" :> 62500
         @@ "70.01-75" :> 125000 @@ "75.01-80" :> 187500 @@ "80.01-85" :> 212500
         @@ "85.01-90" :> 175000 @@ "90.01-95" :> 162500 @@ ">95" :> 162500)
 @@ "680-699" :> ("<=30" :> 0 @@ "30.01-60" :> 0 @@ "60.01-70" :> 87500
         @@ "70.01-75" :> 162500 @@ "75.01-80" :> 225000 @@ "80.01-85" :> 250000
         @@ "85.01-90" :> 212500 @@ "90.01-95" :> 175000 @@ ">95" :> 175000)
 @@ "660-679" :> ("<=30" :> 0 @@ "30.01-60" :> 12500 @@ "60.01-70" :> 112500
         @@ "70.01-75" :> 187500 @@ "75.01-80" :> 250000 @@ "80.01-85" :> 300000
         @@ "85.01-90" :> 237500 @@ "90.01-95" :> 212500 @@ ">95" :> 212500)
 @@ "640-659" :> ("<=30" :> 0 @@ "30.01-60" :> 25000 @@ "60.01-70" :> 137500
         @@ "70.01-75" :> 212500 @@ "75.01-80" :> 287500 @@ "80.01-85" :> 337500
         @@ "85.01-90" :> 287500 @@ "90.01-95" :> 250000 @@ ">95" :> 250000)
 @@ "<=639" :> ("<=30" :> 0 @@ "30.01-60" :> 37500 @@ "60.01-70" :> 175000
         @@ "70.01-75" :> 250000 @@ "75.01-80" :> 350000 @@ "80.01-85" :> 387500
         @@ "85.01-90" :> 362500 @@ "90.01-95" :> 250000 @@ ">95" :> 250000)

PURCHASE_CONDO ==
    "<=30" :> 0 @@ "30.01-60" :> 0 @@ "60.01-70" :> 12500
    @@ "70.01-75" :> 12500 @@ "75.01-80" :> 75000 @@ "80.01-85" :> 75000
    @@ "85.01-90" :> 75000 @@ "90.01-95" :> 75000 @@ ">95" :> 75000

PURCHASE_INVESTMENT ==
    "<=30" :> 112500 @@ "30.01-60" :> 112500 @@ "60.01-70" :> 162500
    @@ "70.01-75" :> 212500 @@ "75.01-80" :> 337500 @@ "80.01-85" :> 412500
    @@ "85.01-90" :> 412500 @@ "90.01-95" :> 412500 @@ ">95" :> 412500

PURCHASE_SECOND_HOME ==
    "<=30" :> 112500 @@ "30.01-60" :> 112500 @@ "60.01-70" :> 162500
    @@ "70.01-75" :> 212500 @@ "75.01-80" :> 337500 @@ "80.01-85" :> 412500
    @@ "85.01-90" :> 412500 @@ "90.01-95" :> 412500 @@ ">95" :> 412500

PURCHASE_2_TO_4_UNIT ==
    "<=30" :> 0 @@ "30.01-60" :> 0 @@ "60.01-70" :> 37500
    @@ "70.01-75" :> 37500 @@ "75.01-80" :> 62500 @@ "80.01-85" :> 62500
    @@ "85.01-90" :> 62500 @@ "90.01-95" :> 62500 @@ ">95" :> 62500

PURCHASE_HIGH_BALANCE_FIXED ==
    "<=30" :> 50000 @@ "30.01-60" :> 50000 @@ "60.01-70" :> 75000
    @@ "70.01-75" :> 75000 @@ "75.01-80" :> 100000 @@ "80.01-85" :> 100000
    @@ "85.01-90" :> 100000 @@ "90.01-95" :> 100000 @@ ">95" :> 100000

\* str.upper() on a string held as a sequence of one-character strings
LowerLetters ==
    <<"a", "b", "c", "d", "e", "f", "g", "h", "i", "j", "k", "l", "m",
      "n", "o", "p", "q", "r", "s", "t", "u", "v", "w", "x", "y", "z">>

UpperLetters ==
    <<"A", "B", "C", "D", "E", "F", "G", "H", "I", "J", "K", "L", "M",
      "N", "O", "P", "Q", "R", "S", "T", "U", "V", "W", "X", "Y", "Z">>

UpperChar(c) ==
    IF \E i \in DOMAIN LowerLetters : LowerLetters[i] = c
    THEN UpperLetters[CHOOSE i \in DOMAIN LowerLetters : LowerLetters[i] = c]
    ELSE c

str_upper(s) == [i \in DOMAIN s |-> UpperChar(s[i])]

\* the first call that raised, else Ok of the last
FirstRaise(results) ==
    IF \E i \in DOMAIN results : results[i].exc # "none"
    THEN results[CHOOSE i \in DOMAIN results :
                    /\ results[i].exc # "none"
                    /\ \A j \in 1..(i - 1) : results[j].exc = "none"]
    ELSE results[Len(results)]

calculate_conventional_llpa(credit_score, ltv, loan_amount, loan_purpose, property_type, occupancy) ==
    LET score_bucket == rc_get_credit_score_bucket(credit_score)
        ltv_bucket == rc_get_ltv_bucket(ltv)
        T == IF loan_purpose = "Purchase" THEN rc_PURCHASE_CREDIT_SCORE_LTV
             ELSE rc_LIMITED_CASHOUT_CREDIT_SCORE_LTV
        row == Subscript(T, score_bucket)
        base == IF row.exc # "none" THEN row ELSE Subscript(row.val, ltv_bucket)
        prop == IF property_type = "Condo"
                  THEN Subscript(PURCHASE_CONDO, ltv_bucket)
                ELSE IF property_type \in {"2-Unit", "3-Unit", "4-Unit"}
                  THEN Subscript(PURCHASE_2_TO_4_UNIT, ltv_bucket)
                ELSE Ok(0)
        occ == IF occupancy = "Investment Property"
                 THEN Subscript(PURCHASE_INVESTMENT, ltv_bucket)
               ELSE IF occupancy = "Second Home"
                 THEN Subscript(PURCHASE_SECOND_HOME, ltv_bucket)
               ELSE Ok(0)
        high == IF loan_amount > rc_CONFORMING_LIMIT_2025
                THEN Subscript(PURCHASE_HIGH_BALANCE_FIXED, ltv_bucket)
                ELSE Ok(0)
        all == FirstRaise(<<base, prop, occ, high>>)
    IN  IF all.exc # "none" THEN all
        ELSE LET adjustments ==
                      "Credit Score / LTV" :> base.val
                   @@ "Property Type" :> prop.val
                   @@ "Occupancy" :> occ.val
                   @@ "High Balance" :> high.val
                 total_llpa == SumOver(adjustments, DOMAIN adjustments)
             IN  Ok(adjustments @@ "Total LLPA" :> total_llpa)

EmptyDict == <<>>

\* mutant: the loan type is compared without upper-casing it
calculate_available_rate_case_sensitive(base_rate, credit_score, ltv, loan_amount, loan_type, property_type, occupancy, state_adjustment) ==
    IF loan_type = <<"F", "H", "A">>
    THEN LET final_rate == base_rate + state_adjustment
         IN  Ok([base_rate |-> base_rate,
                 total_llpa |-> 0,
                 state_adjustment |-> state_adjustment,
                 final_rate |-> final_rate,
                 final_rate_decimal |-> final_rate \div 100,
                 adjustments |-> EmptyDict,
                 loan_type |-> "FHA",
                 note |-> "FHA does not have LLPAs"])
    ELSE LET llpa == calculate_conventional_llpa(credit_score, ltv, loan_amount,
                         "Rate/Term Refinance", property_type, occupancy)
         IN  IF llpa.exc # "none" THEN llpa
             ELSE LET adjustments == llpa.val
                      total_llpa == Get(adjustments, "Total LLPA", 0)
                      final_rate == base_rate + total_llpa + state_adjustment
                  IN  Ok([base_rate |-> base_rate,
                          total_llpa |-> total_llpa,
                          state_adjustment |-> state_adjustment,
                          final_rate |-> final_rate,
                          final_rate_decimal |-> final_rate \div 100,
                          adjustments |-> adjustments,
                          loan_type |-> "Conventional"])

calculate_available_rate(base_rate, credit_score, ltv, loan_amount, loan_type, property_type, occupancy, state_adjustment) ==
    IF str_upper(loan_type) = <<"F", "H", "A">>
    THEN LET final_rate == base_rate + state_adjustment
         IN  Ok([base_rate |-> base_rate,
                 total_llpa |-> 0,
                 state_adjustment |-> state_adjustment,
                 final_rate |-> final_rate,
                 final_rate_decimal |-> final_rate \div 100,
                 adjustments |-> EmptyDict,
                 loan_type |-> "FHA",
                 note |-> "FHA does not have LLPAs"])
    ELSE LET llpa == calculate_conventional_llpa(credit_score, ltv, loan_amount,
                         "Rate/Term Refinance", property_type, occupancy)
         IN  IF llpa.exc # "none" THEN llpa
             ELSE LET adjustments == llpa.val
                      total_llpa == Get(adjustments, "Total LLPA", 0)
                      final_rate == base_rate + total_llpa + state_adjustment
                  IN  Ok([base_rate |-> base_rate,
                          total_llpa |-> total_llpa,
                          state_adjustment |-> state_adjustment,
                          final_rate |-> final_rate,
                          final_rate_decimal |-> final_rate \div 100,
                          adjustments |-> adjustments,
                          loan_type |-> "Conventional"])

-----------------------------------------------------------------------------
(* utils/optimal_threshold.py *)

\* f"{x:.0f}" of the float with sign bit neg and magnitude mag: the nearest
\* integer, ties to even; a negative value that rounds to zero prints "-0"
Fmt0f(neg, mag) ==
    LET q == mag \div Num(1)
        r == mag % Num(1)
        n == IF 2 * r > Num(1) THEN q + 1
             ELSE IF 2 * r < Num(1) THEN q
             ELSE IF q % 2 = 0 THEN q ELSE q + 1
    IN  (IF neg THEN "-" ELSE "") \o ToString(n)

\* mutant: a difference of exactly zero counts as ready
is_ready_to_refinance_at_zero(trigger_rate, available_rate) ==
    IF trigger_rate = None \/ available_rate = None
    THEN Ok([is_ready |-> FALSE,
          difference |-> None,
          difference_bps |-> None,
          message |-> "Missing rate data"])
    ELSE LET difference == trigger_rate[1] - available_rate[1]
             difference_bps == difference * 10000
         IN  IF difference >= 0
             THEN Ok([is_ready |-> TRUE,
                   difference |-> Some(difference),
                   difference_bps |-> Some(difference_bps),
                   message |-> "Ready to refinance! Available rate is "
                               \o Fmt0f(FALSE, difference_bps)
                               \o " bps below trigger."])
             ELSE Ok([is_ready |-> FALSE,
                   difference |-> Some(difference),
                   difference_bps |-> Some(difference_bps),
                   \* -difference_bps: x - x is +0.0, whose negation is -0.0
                   message |-> "Not ready. Need rates to drop "
                               \o Fmt0f(difference = 0, -difference_bps)
                               \o " more bps."])

\* mutant: only the trigger rate is tested for None, and float - None raises
is_ready_to_refinance_unguarded(trigger_rate, available_rate) ==
    IF trigger_rate = None
    THEN Ok([is_ready |-> FALSE,
          difference |-> None,
          difference_bps |-> None,
          message |-> "Missing rate data"])
    ELSE IF available_rate = None THEN Raise("TypeError")
    ELSE LET difference == trigger_rate[1] - available_rate[1]
             difference_bps == difference * 10000
         IN  IF difference > 0
             THEN Ok([is_ready |-> TRUE,
                   difference |-> Some(difference),
                   difference_bps |-> Some(difference_bps),
                   message |-> "Ready to refinance! Available rate is "
                               \o Fmt0f(FALSE, difference_bps)
                               \o " bps below trigger."])
             ELSE Ok([is_ready |-> FALSE,
                   difference |-> Some(difference),
                   difference_bps |-> Some(difference_bps),
                   \* -difference_bps: x - x is +0.0, whose negation is -0.0
                   message |-> "Not ready. Need rates to drop "
                               \o Fmt0f(difference = 0, -difference_bps)
                               \o " more bps."])

is_ready_to_refinance(trigger_rate, available_rate) ==
    IF trigger_rate = None \/ available_rate = None
    THEN Ok([is_ready |-> FALSE,
          difference |-> None,
          difference_bps |-> None,
          message |-> "Missing rate data"])
    ELSE LET difference == trigger_rate[1] - available_rate[1]
             difference_bps == difference * 10000
         IN  IF difference > 0
             THEN Ok([is_ready |-> TRUE,
                   difference |-> Some(difference),
                   difference_bps |-> Some(difference_bps),
                   message |-> "Ready to refinance! Available rate is "
                               \o Fmt0f(FALSE, difference_bps)
                               \o " bps below trigger."])
             ELSE Ok([is_ready |-> FALSE,
                   difference |-> Some(difference),
                   difference_bps |-> Some(difference_bps),
                   \* -difference_bps: x - x is +0.0, whose negation is -0.0
                   message |-> "Not ready. Need rates to drop "
                               \o Fmt0f(difference = 0, -difference_bps)
                               \o " more bps."])

-----------------------------------------------------------------------------
(* Inputs of the calls *)

\* how far around each bucket edge the bucketing inputs range
EdgeDelta == 1

\* how many steps of 0.00005 (half a basis point) the rates range over
MaxRateSteps == 12

ScoreEdges == {640, 660, 680, 700, 720, 740, 760, 780}

LtvEdges == {30, 60, 70, 75, 80, 85, 90, 95}

\* credit scores around every edge, and the ends of the 300..850 scale
ScoreInputs ==
    {e + k : e \in ScoreEdges, k \in (-EdgeDelta)..EdgeDelta} \cup {300, 850}

\* LTVs around every edge in steps of 0.01, and 0, 97 and 105 percent
LtvInputs ==
    {Num(e) + k * 1000 : e \in LtvEdges, k \in (-EdgeDelta)..EdgeDelta}
        \cup {0, Num(97), Num(105)}

\* the composite calls take the lowest credit score of every bucket (620 for
\* the bottom one) and the highest LTV of every bucket (97 for the top one)
MaxScoreSteps == 8

ScoreReps == {620 + 20 * k : k \in 0..MaxScoreSteps}

LtvReps == {Num(e) : e \in LtvEdges} \cup {Num(97)}

LoanPurposes == {"Purchase", "Rate/Term Refinance", "Cash-Out Refinance"}

PropertyTypes ==
    {"Single Family", "Condo", "2-Unit", "3-Unit", "4-Unit", "Manufactured Home"}

Occupancies == {"Primary Residence", "Second Home", "Investment Property"}

LoanAmounts ==
    {CONFORMING_LIMIT_2025 + k : k \in (-EdgeDelta)..EdgeDelta} \cup {250000}

LoanTypes ==
    {<<"F", "H", "A">>, <<"f", "h", "a">>, <<"F", "h", "a">>,
     <<"C", "o", "n", "v", "e", "n", "t", "i", "o", "n", "a", "l">>,
     <<"V", "A">>}

\* decimal rates 0.05000, 0.05005, ..., and 0
Rates == {5000 + 5 * k : k \in 0..MaxRateSteps} \cup {0}

OptRates == {None} \cup {Some(r) : r \in Rates}

\* base rates 6.5 and 6.875 percent; state adjustments 0 and 0.125
BaseRates == {650000, 687500}

StateAdjustments == {0, 12500}

ReadyArgs == [trigger_rate : OptRates, available_rate : OptRates]

BucketScoreArgs == [credit_score : ScoreInputs]

BucketLtvArgs == [ltv : LtvInputs]

CreditLtvArgs ==
    [credit_score : ScoreInputs, ltv : LtvInputs,
     loan_purpose : LoanPurposes \cup {"Other"}]

HighBalanceArgs == [loan_amount : LoanAmounts, ltv : LtvInputs, is_arm : BOOLEAN]

SubordinateArgs ==
    {[ltv |-> l, cltv |-> l + d] :
        l \in LtvInputs, d \in {k * 1000 : k \in (-EdgeDelta)..EdgeDelta} \cup {Num(10)}}

TotalLlpaArgs ==
    [credit_score : ScoreReps, ltv : LtvReps,
     loan_amount : {CONFORMING_LIMIT_2025, CONFORMING_LIMIT_2025 + 1},
     loan_purpose : LoanPurposes, property_type : PropertyTypes,
     occupancy : Occupancies, is_arm : BOOLEAN,
     cltv : {None, Some(Num(100))},
     is_homeready : BOOLEAN, is_first_time_buyer_low_income : BOOLEAN]

AvailableRateArgs ==
    [base_rate : BaseRates, credit_score : ScoreReps, ltv : LtvReps,
     loan_amount : {CONFORMING_LIMIT_2025, CONFORMING_LIMIT_2025 + 1},
     loan_type : LoanTypes, property_type : PropertyTypes,
     occupancy : Occupancies, state_adjustment : StateAdjustments]

-----------------------------------------------------------------------------
(* The calls: a call is drawn with its arguments, then the function runs *)

\* the database and the sessions play no part in a call of a pure function
NoDatabase == <<>>

NoSession == <<>>

Draw(name, argset) == op = name /\ args \in argset /\ db = NoDatabase /\ session = NoSession

Init ==
    /\ pc = "call"
    /\ ret = None
    /\ \/ Draw("is_ready_to_refinance", ReadyArgs)
       \/ Draw("get_credit_score_bucket", BucketScoreArgs)
       \/ Draw("rc_get_credit_score_bucket", BucketScoreArgs)
       \/ Draw("get_ltv_bucket", BucketLtvArgs)
       \/ Draw("get_ltv_bucket_cashout", BucketLtvArgs)
       \/ Draw("get_credit_score_ltv_adjustment", CreditLtvArgs)
       \/ Draw("get_high_balance_adjustment", HighBalanceArgs)
       \/ Draw("get_subordinate_financing_adjustment", SubordinateArgs)
       \/ Draw("calculate_total_llpa", TotalLlpaArgs)
       \/ Draw("calculate_available_rate", AvailableRateArgs)

IsReadyToRefinance ==
    /\ pc = "call"
    /\ op = "is_ready_to_refinance"
    /\ ret' = is_ready_to_refinance(args.trigger_rate, args.available_rate)
    /\ pc' = "done"
    /\ UNCHANGED <<op, args, db, session>>

GetCreditScoreBucket ==
    /\ pc = "call"
    /\ op = "get_credit_score_bucket"
    /\ ret' = Ok(get_credit_score_bucket(args.credit_score))
    /\ pc' = "done"
    /\ UNCHANGED <<op, args, db, session>>

RcGetCreditScoreBucket ==
    /\ pc = "call"
    /\ op = "rc_get_credit_score_bucket"
    /\ ret' = Ok(rc_get_credit_score_bucket(args.credit_score))
    /\ pc' = "done"
    /\ UNCHANGED <<op, args, db, session>>

GetLtvBucket ==
    /\ pc = "call"
    /\ op = "get_ltv_bucket"
    /\ ret' = Ok(get_ltv_bucket(args.ltv))
    /\ pc' = "done"
    /\ UNCHANGED <<op, args, db, session>>

GetLtvBucketCashout ==
    /\ pc = "call"
    /\ op = "get_ltv_bucket_cashout"
    /\ ret' = Ok(get_ltv_bucket_cashout(args.ltv))
    /\ pc' = "done"
    /\ UNCHANGED <<op, args, db, session>>

GetCreditScoreLtvAdjustment ==
    /\ pc = "call"
    /\ op = "get_credit_score_ltv_adjustment"
    /\ ret' = get_credit_score_ltv_adjustment(args.credit_score, args.ltv,
                                              args.loan_purpose)
    /\ pc' = "done"
    /\ UNCHANGED <<op, args, db, session>>

GetHighBalanceAdjustment ==
    /\ pc = "call"
    /\ op = "get_high_balance_adjustment"
    /\ ret' = Ok(get_high_balance_adjustment(args.loan_amount, args.ltv,
                                             args.is_arm))
    /\ pc' = "done"
    /\ UNCHANGED <<op, args, db, session>>

GetSubordinateFinancingAdjustment ==
    /\ pc = "call"
    /\ op = "get_subordinate_financing_adjustment"
    /\ ret' = Ok(get_subordinate_financing_adjustment(args.ltv, args.cltv))
    /\ pc' = "done"
    /\ UNCHANGED <<op, args, db, session>>

CalculateTotalLlpa ==
    /\ pc = "call"
    /\ op = "calculate_total_llpa"
    /\ ret' = calculate_total_llpa(args.credit_score, args.ltv, args.loan_amount,
                                   args.loan_purpose, args.property_type,
                                   args.occupancy, args.is_arm, args.cltv,
                                   args.is_homeready,
                                   args.is_first_time_buyer_low_income)
    /\ pc' = "done"
    /\ UNCHANGED <<op, args, db, session>>

CalculateAvailableRate ==
    /\ pc = "call"
    /\ op = "calculate_available_rate"
    /\ ret' = calculate_available_rate(args.base_rate, args.credit_score,
                                       args.ltv, args.loan_amount, args.loan_type,
                                       args.property_type, args.occupancy,
                                       args.state_adjustment)
    /\ pc' = "done"
    /\ UNCHANGED <<op, args, db, session>>

Next ==
    \/ IsReadyToRefinance
    \/ GetCreditScoreBucket
    \/ RcGetCreditScoreBucket
    \/ GetLtvBucket
    \/ GetLtvBucketCashout
    \/ GetCreditScoreLtvAdjustment
    \/ GetHighBalanceAdjustment
    \/ GetSubordinateFinancingAdjustment
    \/ CalculateTotalLlpa
    \/ CalculateAvailableRate

Spec == Init /\ [][Next]_vars

-----------------------------------------------------------------------------
(* Floating point in utils/optimal_threshold.py                              *)
(*                                                                           *)
(* The threshold solver mixes Python floats with numpy float64 scalars.  A   *)
(* float is a record: k is "fin" (finite), "inf", "nan", or the name of the  *)
(* exception an operand raised; np tells a numpy scalar from a Python float; *)
(* v is the finite value in fixed point with four decimals (FS = 1.0), or    *)
(* the sign of an infinity.  Python float / Python float raises              *)
(* ZeroDivisionError on a zero divisor; as soon as one operand is a numpy    *)
(* scalar the division follows IEEE 754 (inf or nan, with a warning only).   *)
(* Finite results are rounded to the nearest multiple of 0.0001; zeros are   *)
(* unsigned.                                                                 *)
(*                                                                           *)
(* Python evaluates an operand or a local variable once.  The idiom          *)
(*     CHOOSE r \in {e(x) : x \in {operand}} : TRUE                          *)
(* does the same: x is bound to the value of the operand, then e(x) is       *)
(* evaluated with it.                                                        *)

FS == 10000

Abs(n) == IF n < 0 THEN -n ELSE n

Sign(n) == IF n > 0 THEN 1 ELSE IF n < 0 THEN -1 ELSE 0

\* <<q, r>> with a * b = q * c + r and 0 <= r < c, for a, b >= 0 and c > 0,
\* by binary long multiplication: the product a * b is never formed
RECURSIVE MulDivQR(_, _, _)
MulDivQR(a, b, c) ==
    IF b = 0 THEN <<0, 0>>
    ELSE CHOOSE qr \in
             {IF b % 2 = 0
              THEN <<(2 * h[1]) + ((2 * h[2]) \div c), (2 * h[2]) % c>>
              ELSE <<(2 * h[1]) + ((2 * h[2]) \div c) + (a \div c)
                         + ((((2 * h[2]) % c) + (a % c)) \div c),
                     (((2 * h[2]) % c) + (a % c)) % c>>
              : h \in {MulDivQR(a, b \div 2, c)}} : TRUE

\* a * b / c rounded to the nearest integer, c # 0
MulDiv(a, b, c) ==
    CHOOSE r \in
        {CHOOSE q \in
             {Sign(x) * Sign(y) * Sign(z)
                  * (IF 2 * qr[2] >= Abs(z) THEN qr[1] + 1 ELSE qr[1])
              : qr \in {MulDivQR(Abs(x), Abs(y), Abs(z))}} : TRUE
         : x \in {a}, y \in {b}, z \in {c}} : TRUE

PyFloat(v) == [k |-> "fin", np |-> FALSE, v |-> v]

NpFloat(v) == [k |-> "fin", np |-> TRUE, v |-> v]

Inf(s) == [k |-> "inf", np |-> TRUE, v |-> s]

NaN == [k |-> "nan", np |-> TRUE, v |-> 0]

ZeroDivisionError == [k |-> "ZeroDivisionError", np |-> FALSE, v |-> 0]

\* a Python int or float literal n
Lit(n) == PyFloat(n * FS)

IsExc(a) == a.k \notin {"fin", "inf", "nan"}

IsZero(a) == a.k = "fin" /\ a.v = 0

\* -a
fneg(a) ==
    CHOOSE r \in
        {IF x.k \in {"fin", "inf"} THEN [x EXCEPT !.v = -x.v] ELSE x
         : x \in {a}} : TRUE

\* a + b
fadd(a, b) ==
    CHOOSE r \in
        {IF IsExc(x) THEN x
         ELSE IF IsExc(y) THEN y
         ELSE IF x.k = "nan" \/ y.k = "nan" THEN NaN
         ELSE IF x.k = "inf" /\ y.k = "inf" THEN (IF x.v = y.v THEN x ELSE NaN)
         ELSE IF x.k = "inf" THEN x
         ELSE IF y.k = "inf" THEN y
         ELSE [k |-> "fin", np |-> x.np \/ y.np, v |-> x.v + y.v]
         : x \in {a}, y \in {b}} : TRUE

\* a - b
fsub(a, b) == fadd(a, fneg(b))

\* a * b
fmul(a, b) ==
    CHOOSE r \in
        {IF IsExc(x) THEN x
         ELSE IF IsExc(y) THEN y
         ELSE IF x.k = "nan" \/ y.k = "nan" THEN NaN
         ELSE IF x.k = "inf" \/ y.k = "inf"
              THEN (IF IsZero(x) \/ IsZero(y) THEN NaN ELSE Inf(Sign(x.v) * Sign(y.v)))
         ELSE [k |-> "fin", np |-> x.np \/ y.np, v |-> MulDiv(x.v, y.v, FS)]
         : x \in {a}, y \in {b}} : TRUE

\* a / b
fdiv(a, b) ==
    CHOOSE r \in
        {IF IsExc(x) THEN x
         ELSE IF IsExc(y) THEN y
         ELSE IF IsZero(y) /\ ~x.np /\ ~y.np THEN ZeroDivisionError
         ELSE IF x.k = "nan" \/ y.k = "nan" THEN NaN
         ELSE IF IsZero(y) THEN (IF IsZero(x) THEN NaN ELSE Inf(Sign(x.v)))
         ELSE IF x.k = "inf" THEN (IF y.k = "inf" THEN NaN ELSE Inf(x.v * Sign(y.v)))
         ELSE IF y.k = "inf" THEN NpFloat(0)
         ELSE [k |-> "fin", np |-> x.np \/ y.np, v |-> MulDiv(x.v, FS, y.v)]
         : x \in {a}, y \in {b}} : TRUE

\* a < b
flt(a, b) ==
    CHOOSE r \in
        {x.k = "fin" /\ y.k = "fin" /\ x.v < y.v : x \in {a}, y \in {b}} : TRUE

\* abs(a)
fabs(a) ==
    CHOOSE r \in
        {IF x.k \in {"fin", "inf"} THEN [x EXCEPT !.v = Abs(x.v)] ELSE x
         : x \in {a}} : TRUE

\* the largest r in lo .. hi - 1 with r * r <= n
RECURSIVE ISqrtIn(_, _, _)
ISqrtIn(n, lo, hi) ==
    IF hi - lo <= 1 THEN lo
    ELSE CHOOSE r \in
             {IF mid * mid <= n THEN ISqrtIn(n, mid, hi) ELSE ISqrtIn(n, lo, mid)
              : mid \in {(lo + hi) \div 2}} : TRUE

\* np.sqrt(a): nan (with a warning) below zero
np_sqrt(a) ==
    CHOOSE r \in
        {IF IsExc(x) \/ x.k = "nan" THEN x
         ELSE IF x.k = "inf" THEN (IF x.v > 0 THEN x ELSE NaN)
         ELSE IF x.v < 0 THEN NaN
         ELSE NpFloat(ISqrtIn(x.v * FS, 0, 46341))
         : x \in {a}} : TRUE

\* the power series of e^x for x >= 0, from the term x^(n-1)/(n-1)! on
RECURSIVE ExpSeries(_, _, _)
ExpSeries(x, term, n) ==
    CHOOSE r \in
        {IF t = 0 THEN 0 ELSE t + ExpSeries(x, MulDiv(t, x, n * FS), n + 1)
         : t \in {term}} : TRUE

ExpFixed(x) ==
    IF x >= 0 THEN ExpSeries(x, FS, 1)
    ELSE MulDiv(FS, FS, ExpSeries(-x, FS, 1))

\* np.exp(a)
np_exp(a) ==
    CHOOSE r \in
        {IF IsExc(x) \/ x.k = "nan" THEN x
         ELSE IF x.k = "inf" THEN (IF x.v > 0 THEN x ELSE NpFloat(0))
         ELSE NpFloat(ExpFixed(x.v))
         : x \in {a}} : TRUE

\* w * e^w, increasing in w on [-1, 0]
WExpW(w) == MulDiv(w, ExpFixed(w), FS)

\* the least w in lo + 1 .. hi with w * e^w >= z, given WExpW(lo) < z <= WExpW(hi)
RECURSIVE W0Between(_, _, _)
W0Between(z, lo, hi) ==
    IF hi - lo <= 1 THEN hi
    ELSE CHOOSE r \in
             {IF WExpW(mid) < z THEN W0Between(z, mid, hi) ELSE W0Between(z, lo, mid)
              : mid \in {(lo + hi) \div 2}} : TRUE

\* np.real(lambertw(a, k=0)) for a in [-1/e, 0]: the principal branch W0 is
\* the root w >= -1 of w * e^w = a; W0 of an infinity has real part +inf
lambertw(a) ==
    CHOOSE r \in
        {IF IsExc(x) \/ x.k = "nan" THEN x
         ELSE IF x.k = "inf" THEN Inf(1)
         ELSE IF x.v = 0 THEN NpFloat(0)
         ELSE IF WExpW(-FS) >= x.v THEN NpFloat(-FS)
         ELSE NpFloat(W0Between(x.v, -FS, 0))
         : x \in {a}} : TRUE

\* np.isnan(a)
np_isnan(a) == a.k = "nan"

-----------------------------------------------------------------------------
(* utils/optimal_threshold.py: the threshold solver *)

\* the exception of the first operand that raised, "none" when none did
RECURSIVE FirstExc(_)
FirstExc(fs) ==
    IF fs = <<>> THEN "none"
    ELSE IF IsExc(Head(fs)) THEN Head(fs).k
    ELSE FirstExc(Tail(fs))

\* a float-valued return: the exception propagates to the caller
Return(a) == CHOOSE r \in {IF IsExc(x) THEN Raise(x.k) ELSE Ok(x) : x \in {a}} : TRUE

calculate_lambda(mu, i0, Gamma, pi) ==
    IF flt(fmul(i0, Gamma), Lit(100))
    THEN fadd(fadd(mu, fdiv(i0, fsub(np_exp(fmul(i0, Gamma)), Lit(1)))), pi)
    ELSE fadd(mu, pi)

calculate_kappa(M, points, fixed_cost, tau) == fadd(fixed_cost, fmul(points, M))

\* x_star: the try block of lines 77-82 turns an exception into nan
calculate_optimal_threshold(M, rho, lambda_val, sigma, kappa, tau) ==
    CHOOSE result \in
        {CHOOSE r \in
             {CHOOSE q \in
                  {IF FirstExc(<<psi, C_M, phi>>) # "none"
                   THEN Raise(FirstExc(<<psi, C_M, phi>>))
                   ELSE Ok(<<IF IsExc(x_star) THEN NaN ELSE x_star, psi, phi, C_M>>)
                   : x_star \in {fmul(fdiv(Lit(1), psi),
                                      fadd(phi, lambertw(fneg(np_exp(fneg(phi))))))}} : TRUE
              : phi \in {fadd(Lit(1), fdiv(fmul(fmul(psi, fadd(rho, lambda_val)), C_M), M))}} : TRUE
         : psi \in {fdiv(np_sqrt(fmul(Lit(2), fadd(rho, lambda_val))), sigma)},
           C_M \in {fdiv(kappa, fsub(Lit(1), tau))}} : TRUE

calculate_square_root_approximation(M, rho, lambda_val, sigma, kappa, tau) ==
    Return(fneg(fmul(fmul(sigma, np_sqrt(fdiv(kappa, fmul(M, fsub(Lit(1), tau))))),
                     np_sqrt(fmul(Lit(2), fadd(rho, lambda_val))))))

\* mutant: the cost ratio is not scaled by rho + lambda
calculate_npv_threshold_unscaled(M, rho, lambda_val, kappa, tau) ==
    Return(fdiv(fneg(fdiv(kappa, fsub(Lit(1), tau))), M))

\* x_npv = -(rho + lambda_val) * C_M / M with C_M = kappa / (1 - tau)
calculate_npv_threshold(M, rho, lambda_val, kappa, tau) ==
    Return(fdiv(fmul(fneg(fadd(rho, lambda_val)), fdiv(kappa, fsub(Lit(1), tau))), M))

\* the truth value of an optional float: None and 0.0 are false, nan is true
Truthy(o) == o # None /\ ~IsZero(o[1])

\* the dict calculate_trigger_rate returns once its calls have returned
trigger_rate_result(current_rate, lambda_val, kappa, x_star, psi, phi, C_M, x_star_sqrt, x_npv, x_star_bp, trigger_rate) ==
    [optimal_threshold_bps |-> x_star_bp,
     trigger_rate          |-> trigger_rate,
     trigger_rate_pct      |-> IF Truthy(trigger_rate)
                               THEN Some(fmul(trigger_rate[1], Lit(100)))
                               ELSE None,
     x_star                |-> x_star,
     sqrt_approx_bps       |-> fmul(fneg(x_star_sqrt), Lit(10000)),
     npv_threshold_bps     |-> fmul(fneg(x_npv), Lit(10000)),
     lambda                |-> lambda_val,
     kappa                 |-> kappa,
     psi                   |-> psi,
     phi                   |-> phi,
     C_M                   |-> C_M,
     current_rate          |-> current_rate,
     current_rate_pct      |-> fmul(current_rate, Lit(100))]

calculate_trigger_rate(current_rate_arg, remaining_balance, remaining_years, discount_rate, volatility, tax_rate, fixed_cost, points, prob_moving, inflation_rate) ==
    CHOOSE result \in
        {CHOOSE r \in
             {CHOOSE q \in
                  {IF exact.exc # "none" THEN exact
                   ELSE IF sqrt_approx.exc # "none" THEN sqrt_approx
                   ELSE IF npv.exc # "none" THEN npv
                   ELSE CHOOSE d \in
                            {Ok(trigger_rate_result(current_rate, lambda_val, kappa,
                                    exact.val[1], exact.val[2], exact.val[3], exact.val[4],
                                    sqrt_approx.val, npv.val, x_star_bp,
                                    IF x_star_bp # None
                                    THEN Some(fsub(current_rate, fabs(exact.val[1])))
                                    ELSE None))
                             : x_star_bp \in {IF ~np_isnan(exact.val[1])
                                              THEN Some(fmul(fneg(exact.val[1]), Lit(10000)))
                                              ELSE None}} : TRUE
                   : exact \in {calculate_optimal_threshold(remaining_balance, discount_rate, lambda_val, volatility, kappa, tax_rate)},
                     sqrt_approx \in {calculate_square_root_approximation(remaining_balance, discount_rate, lambda_val, volatility, kappa, tax_rate)},
                     npv \in {calculate_npv_threshold(remaining_balance, discount_rate, lambda_val, kappa, tax_rate)}} : TRUE
              : lambda_val \in {calculate_lambda(prob_moving, current_rate, remaining_years, inflation_rate)},
                kappa \in {calculate_kappa(remaining_balance, points, fixed_cost, tax_rate)}} : TRUE
         : current_rate \in {IF flt(Lit(1), current_rate_arg)
                             THEN fdiv(current_rate_arg, Lit(100))
                             ELSE current_rate_arg}} : TRUE

-----------------------------------------------------------------------------
(* The threshold solver's calls.  Arguments arrive as Python floats (form   *)
(* fields, stored columns, keyword defaults); lambda_val is what            *)
(* calculate_lambda returns: a numpy scalar from its first branch, a Python *)
(* float from its second.  Balances stay at or below 100000 so that every   *)
(* intermediate value fits the checker's 32-bit integers.                   *)

Balances == {Lit(0), Lit(50000), Lit(100000)}

DiscountRates == {PyFloat(500)}

LambdaVals == {NpFloat(1459), PyFloat(1300)}

Volatilities == {PyFloat(0), PyFloat(109)}

Kappas == {Lit(0), Lit(3000)}

TaxRates == {PyFloat(0), PyFloat(2800), Lit(1)}

CurrentRates == {PyFloat(650), PyFloat(65000)}

RemainingYears == {Lit(0), Lit(25)}

FixedCosts == {Lit(0), Lit(2000)}

PointsFractions == {PyFloat(0), PyFloat(100)}

ThresholdArgs == [M : Balances, rho : DiscountRates, lambda_val : LambdaVals, sigma : Volatilities, kappa : Kappas, tau : TaxRates]

TriggerArgs == [current_rate : CurrentRates, remaining_balance : Balances, remaining_years : RemainingYears, discount_rate : DiscountRates, volatility : Volatilities, tax_rate : TaxRates, fixed_cost : FixedCosts, points : PointsFractions, prob_moving : {PyFloat(1000)}, inflation_rate : {PyFloat(300)}]

ThresholdInit ==
    /\ pc = "call"
    /\ ret = None
    /\ \/ Draw("calculate_optimal_threshold", ThresholdArgs)
       \/ Draw("calculate_square_root_approximation", ThresholdArgs)
       \/ Draw("calculate_npv_threshold", ThresholdArgs)
       \/ Draw("calculate_trigger_rate", TriggerArgs)

CalculateOptimalThreshold ==
    /\ pc = "call"
    /\ op = "calculate_optimal_threshold"
    /\ ret' = calculate_optimal_threshold(args.M, args.rho, args.lambda_val, args.sigma, args.kappa, args.tau)
    /\ pc' = "done"
    /\ UNCHANGED <<op, args, db, session>>

CalculateSquareRootApproximation ==
    /\ pc = "call"
    /\ op = "calculate_square_root_approximation"
    /\ ret' = calculate_square_root_approximation(args.M, args.rho, args.lambda_val, args.sigma, args.kappa, args.tau)
    /\ pc' = "done"
    /\ UNCHANGED <<op, args, db, session>>

CalculateNpvThreshold ==
    /\ pc = "call"
    /\ op = "calculate_npv_threshold"
    /\ ret' = calculate_npv_threshold(args.M, args.rho, args.lambda_val, args.kappa, args.tau)
    /\ pc' = "done"
    /\ UNCHANGED <<op, args, db, session>>

CalculateTriggerRate ==
    /\ pc = "call"
    /\ op = "calculate_trigger_rate"
    /\ ret' = calculate_trigger_rate(args.current_rate, args.remaining_balance, args.remaining_years, args.discount_rate, args.volatility, args.tax_rate, args.fixed_cost, args.points, args.prob_moving, args.inflation_rate)
    /\ pc' = "done"
    /\ UNCHANGED <<op, args, db, session>>

ThresholdNext ==
    \/ CalculateOptimalThreshold
    \/ CalculateSquareRootApproximation
    \/ CalculateNpvThreshold
    \/ CalculateTriggerRate

ThresholdSpec == ThresholdInit /\ [][ThresholdNext]_vars

-----------------------------------------------------------------------------
(* utils/rate_calculator.py: the pricing grid                                *)
(*                                                                           *)
(* The admin_settings table stores each grid as JSON text.  A stored text is *)
(* modelled by what json.loads makes of it: the Python value it parses to,   *)
(* or a parse failure.  A Python value loaded from JSON is a record with its *)
(* type; a dict keeps its items as the sequence of <<key, value>> pairs in   *)
(* insertion order, a key is a string held as a sequence of characters; a    *)
(* list keeps its elements as pairs with the empty key.                      *)
(* Rates and points are fixed point with five decimals (Num), costs are      *)
(* dollars in the same fixed point, loan amounts are whole dollars.          *)

PyDict(items) == [type |-> "dict", items |-> items, v |-> 0]

PyList(items) == [type |-> "list", items |-> items, v |-> 0]

PyNone == [type |-> "NoneType", items |-> <<>>, v |-> 0]

PyNumber(n) == [type |-> "float", items |-> <<>>, v |-> n]

\* a string of n characters
PyStr(n) == [type |-> "str", items |-> <<>>, v |-> n]

\* the text json.dumps(value)
JsonText(value) == [parses |-> TRUE, value |-> value]

\* a text that is not JSON
BrokenText == [parses |-> FALSE, value |-> PyNone]

\* json.loads(text)
json_loads(text) == IF text.parses THEN Ok(text.value) ELSE Raise("JSONDecodeError")

\* bool(value) is False
Falsy(value) ==
    \/ value.type = "NoneType"
    \/ value.type \in {"dict", "list"} /\ value.items = <<>>
    \/ value.type \in {"float", "str"} /\ value.v = 0

LowerChar(c) ==
    IF \E i \in DOMAIN UpperLetters : UpperLetters[i] = c
    THEN LowerLetters[CHOOSE i \in DOMAIN UpperLetters : UpperLetters[i] = c]
    ELSE c

str_lower(s) == [i \in DOMAIN s |-> LowerChar(s[i])]

Digits == <<"0", "1", "2", "3", "4", "5", "6", "7", "8", "9">>

IsDigit(c) == \E i \in DOMAIN Digits : Digits[i] = c

DigitValue(c) == (CHOOSE i \in DOMAIN Digits : Digits[i] = c) - 1

\* the number a sequence of digits denotes
RECURSIVE DecimalValue(_)
DecimalValue(s) ==
    IF s = <<>> THEN 0
    ELSE 10 * DecimalValue(SubSeq(s, 1, Len(s) - 1)) + DigitValue(s[Len(s)])

RECURSIVE Pow10(_)
Pow10(n) == IF n = 0 THEN 1 ELSE 10 * Pow10(n - 1)

\* float(s) for a plain decimal s (digits, at most one point, at most five
\* decimals); ValueError for a word
float(s) ==
    LET dots == {i \in DOMAIN s : s[i] = "."}
        dot  == IF dots = {} THEN Len(s) + 1 ELSE CHOOSE i \in dots : TRUE
        int  == SubSeq(s, 1, dot - 1)
        frac == SubSeq(s, dot + 1, Len(s))
    IN  IF /\ Cardinality(dots) <= 1
           /\ Len(int) + Len(frac) > 0
           /\ Len(frac) <= 5
           /\ \A i \in DOMAIN s : i \in dots \/ IsDigit(s[i])
        THEN Ok(Num(DecimalValue(int)) + DecimalValue(frac) * Pow10(5 - Len(frac)))
        ELSE Raise("ValueError")

\* f"{rate:.3f}%" for a rate >= 0 with at most three decimals
Fmt3f(rate) ==
    LET thousandths == (rate % Num(1)) \div 100
    IN  ToString(rate \div Num(1)) \o "."
          \o ToString(thousandths \div 100)
          \o ToString((thousandths \div 10) % 10)
          \o ToString(thousandths % 10) \o "%"

\* "pricing_grid_"
GridKeyPrefix == <<"p", "r", "i", "c", "i", "n", "g", "_", "g", "r", "i", "d", "_">>

\* the grid is read from the admin settings; a missing key reads as '{}',
\* a NULL value makes json.loads raise TypeError, any failure gives {}
get_pricing_grid(settings, loan_type) ==
    LET grid_key  == GridKeyPrefix \o str_lower(loan_type)
        grid_json == Get(settings, grid_key, Some(JsonText(PyDict(<<>>))))
        loaded    == IF grid_json = None THEN Raise("TypeError")
                     ELSE json_loads(grid_json[1])
    IN  IF loaded.exc # "none" THEN PyDict(<<>>) ELSE loaded.val

\* sorted(items, key=lambda x: float(x[0]), reverse=True): stable, so items
\* with equal keys keep their order
RECURSIVE sorted_by_rate_desc(_)
sorted_by_rate_desc(items) ==
    IF items = <<>> THEN <<>>
    ELSE CHOOSE sorted \in
             {CHOOSE placed \in
                  {SubSeq(front, 1, n) \o <<x>> \o SubSeq(front, n + 1, Len(front))
                   : n \in {Cardinality({i \in DOMAIN front : float(front[i][1]).val >= key})}} : TRUE
              : front \in {sorted_by_rate_desc(SubSeq(items, 1, Len(items) - 1))},
                x     \in {items[Len(items)]},
                key   \in {float(items[Len(items)][1]).val}} : TRUE

\* one element of the list get_available_rates_with_points returns
rate_entry(rate_str, base_points, llpa_points, loan_amount) ==
    CHOOSE entry \in
        {[rate         |-> rate,
          rate_str     |-> Fmt3f(rate),
          base_points  |-> base,
          llpa_points  |-> llpa,
          total_points |-> base + llpa,
          total_cost   |-> MulDiv(base + llpa, loan_amount, 100),
          is_par       |-> Abs(base) < 100,
          has_credit   |-> base + llpa < 0,
          has_cost     |-> base + llpa > 0]
         : rate \in {float(rate_str).val}, base \in {base_points}, llpa \in {llpa_points}} : TRUE

\* mutant: the borrower's LLPA is left out of the points
get_available_rates_with_points_no_llpa(settings, base_rate, credit_score, ltv, loan_amount, loan_type, property_type, occupancy) ==
    CHOOSE result \in
        {IF Falsy(grid) THEN Ok(<<>>)
         ELSE CHOOSE checked \in
                  {IF adjustments.exc # "none" THEN adjustments
                   ELSE IF grid.type # "dict" THEN Raise("AttributeError")
                   ELSE IF \E i \in DOMAIN grid.items : float(grid.items[i][1]).exc # "none"
                        THEN Raise("ValueError")
                   ELSE IF \E i \in DOMAIN grid.items : grid.items[i][2].type # "float"
                        THEN Raise("TypeError")
                   ELSE CHOOSE listed \in
                            {Ok([i \in DOMAIN ordered |->
                                    rate_entry(ordered[i][1], ordered[i][2].v, llpa_points, loan_amount)])
                             : ordered     \in {sorted_by_rate_desc(grid.items)},
                               llpa_points \in {0}} : TRUE
                   : adjustments \in {IF conventional
                                      THEN calculate_conventional_llpa(credit_score, ltv, loan_amount,
                                               "Rate/Term Refinance", property_type, occupancy)
                                      ELSE Ok(EmptyDict)}} : TRUE
         : grid         \in {get_pricing_grid(settings, loan_type)},
           conventional \in {str_upper(loan_type) = <<"C", "O", "N", "V", "E", "N", "T", "I", "O", "N", "A", "L">>}} : TRUE

get_available_rates_with_points(settings, base_rate, credit_score, ltv, loan_amount, loan_type, property_type, occupancy) ==
    CHOOSE result \in
        {IF Falsy(grid) THEN Ok(<<>>)
         ELSE CHOOSE checked \in
                  {IF adjustments.exc # "none" THEN adjustments
                   ELSE IF grid.type # "dict" THEN Raise("AttributeError")
                   ELSE IF \E i \in DOMAIN grid.items : float(grid.items[i][1]).exc # "none"
                        THEN Raise("ValueError")
                   ELSE IF \E i \in DOMAIN grid.items : grid.items[i][2].type # "float"
                        THEN Raise("TypeError")
                   ELSE CHOOSE listed \in
                            {Ok([i \in DOMAIN ordered |->
                                    rate_entry(ordered[i][1], ordered[i][2].v, llpa_points, loan_amount)])
                             : ordered     \in {sorted_by_rate_desc(grid.items)},
                               llpa_points \in {IF conventional
                                                THEN Get(adjustments.val, "Total LLPA", 0)
                                                ELSE 0}} : TRUE
                   : adjustments \in {IF conventional
                                      THEN calculate_conventional_llpa(credit_score, ltv, loan_amount,
                                               "Rate/Term Refinance", property_type, occupancy)
                                      ELSE Ok(EmptyDict)}} : TRUE
         : grid         \in {get_pricing_grid(settings, loan_type)},
           conventional \in {str_upper(loan_type) = <<"C", "O", "N", "V", "E", "N", "T", "I", "O", "N", "A", "L">>}} : TRUE

\* min(seq, key): the first element whose key is least
ArgMin(keys) ==
    CHOOSE least \in
        {CHOOSE i \in DOMAIN k :
             /\ \A j \in DOMAIN k : k[j] >= k[i]
             /\ \A j \in 1..(i - 1) : k[j] > k[i]
         : k \in {keys}} : TRUE

\* mutant: the first rate of the list is taken as the borrower's par rate
get_par_rate_for_borrower_first(settings, base_rate, credit_score, ltv, loan_amount, loan_type, property_type, occupancy) ==
    CHOOSE result \in
        {IF listed.exc # "none" THEN listed
         ELSE IF listed.val = <<>> THEN Ok(None)
         ELSE CHOOSE found \in
                  {Ok(Some([borrower_par_rate   |-> best_rate.rate,
                            borrower_par_points |-> best_rate.total_points,
                            grid_par_rate       |-> IF pars = {} THEN None
                                                    ELSE Some(rates[CHOOSE i \in pars : \A j \in pars : i <= j].rate),
                            llpa_adjustment     |-> best_rate.llpa_points,
                            all_rates           |-> rates]))
                   : rates     \in {listed.val},
                     best_rate \in {listed.val[1]},
                     pars      \in {{i \in DOMAIN listed.val : listed.val[i].is_par}}} : TRUE
         : listed \in {get_available_rates_with_points(settings, base_rate, credit_score, ltv, loan_amount, loan_type, property_type, occupancy)}} : TRUE

\* a returned dict d is Some(d), a returned None is None
get_par_rate_for_borrower(settings, base_rate, credit_score, ltv, loan_amount, loan_type, property_type, occupancy) ==
    CHOOSE result \in
        {IF listed.exc # "none" THEN listed
         ELSE IF listed.val = <<>> THEN Ok(None)
         ELSE CHOOSE found \in
                  {Ok(Some([borrower_par_rate   |-> best_rate.rate,
                            borrower_par_points |-> best_rate.total_points,
                            grid_par_rate       |-> IF pars = {} THEN None
                                                    ELSE Some(rates[CHOOSE i \in pars : \A j \in pars : i <= j].rate),
                            llpa_adjustment     |-> best_rate.llpa_points,
                            all_rates           |-> rates]))
                   : rates     \in {listed.val},
                     best_rate \in {listed.val[ArgMin([i \in DOMAIN listed.val |-> Abs(listed.val[i].total_points)])]},
                     pars      \in {{i \in DOMAIN listed.val : listed.val[i].is_par}}} : TRUE
         : listed \in {get_available_rates_with_points(settings, base_rate, credit_score, ltv, loan_amount, loan_type, property_type, occupancy)}} : TRUE

\* the integer nearest to a magnitude, ties to even
RoundHalfEven(mag) ==
    LET q == mag \div Num(1)
        r == mag % Num(1)
    IN  IF 2 * r > Num(1) THEN q + 1
        ELSE IF 2 * r < Num(1) THEN q
        ELSE IF q % 2 = 0 THEN q ELSE q + 1

\* the digits of n >= 0 in groups of three
RECURSIVE Grouped(_)
Grouped(n) ==
    IF n < 1000 THEN ToString(n)
    ELSE Grouped(n \div 1000) \o ","
           \o ToString((n % 1000) \div 100)
           \o ToString((n \div 10) % 10)
           \o ToString(n % 10)

\* f"{x:,.0f}"
FmtComma0f(x) == (IF x < 0 THEN "-" ELSE "") \o Grouped(RoundHalfEven(Abs(x)))

\* the elements of seq that satisfy keep, in order
RECURSIVE Filter(_, _)
Filter(seq, keep) ==
    IF seq = <<>> THEN <<>>
    ELSE IF keep[1] THEN <<Head(seq)>> \o Filter(Tail(seq), Tail(keep))
    ELSE Filter(Tail(seq), Tail(keep))

\* mutant: the highest affordable rate is returned
get_best_rate_for_closing_cost_highest(target_cost, settings, base_rate, credit_score, ltv, loan_amount, loan_type, property_type, occupancy) ==
    CHOOSE result \in
        {IF listed.exc # "none" THEN listed
         ELSE IF listed.val = <<>> THEN Ok(None)
         ELSE CHOOSE found \in
                  {IF affordable_rates = <<>>
                   THEN Ok(Some([rate |-> rates[1].rate,
                                 points |-> rates[1].total_points,
                                 cost |-> rates[1].total_cost,
                                 within_budget |-> FALSE,
                                 message |-> "No rates available within budget. Showing highest rate (most credit)."]))
                   ELSE CHOOSE chosen \in
                            {Ok(Some([rate |-> best.rate,
                                      points |-> best.total_points,
                                      cost |-> best.total_cost,
                                      within_budget |-> TRUE,
                                      message |-> "Best rate within $" \o FmtComma0f(target_cost) \o " budget"]))
                             : best \in {affordable_rates[ArgMin([i \in DOMAIN affordable_rates |-> -affordable_rates[i].rate])]}} : TRUE
                   : rates            \in {listed.val},
                     affordable_rates \in {Filter(listed.val, [i \in DOMAIN listed.val |-> listed.val[i].total_cost <= target_cost])}} : TRUE
         : listed \in {get_available_rates_with_points(settings, base_rate, credit_score, ltv, loan_amount, loan_type, property_type, occupancy)}} : TRUE

get_best_rate_for_closing_cost(target_cost, settings, base_rate, credit_score, ltv, loan_amount, loan_type, property_type, occupancy) ==
    CHOOSE result \in
        {IF listed.exc # "none" THEN listed
         ELSE IF listed.val = <<>> THEN Ok(None)
         ELSE CHOOSE found \in
                  {IF affordable_rates = <<>>
                   THEN Ok(Some([rate |-> rates[1].rate,
                                 points |-> rates[1].total_points,
                                 cost |-> rates[1].total_cost,
                                 within_budget |-> FALSE,
                                 message |-> "No rates available within budget. Showing highest rate (most credit)."]))
                   ELSE CHOOSE chosen \in
                            {Ok(Some([rate |-> best.rate,
                                      points |-> best.total_points,
                                      cost |-> best.total_cost,
                                      within_budget |-> TRUE,
                                      message |-> "Best rate within $" \o FmtComma0f(target_cost) \o " budget"]))
                             : best \in {affordable_rates[ArgMin([i \in DOMAIN affordable_rates |-> affordable_rates[i].rate])]}} : TRUE
                   : rates            \in {listed.val},
                     affordable_rates \in {Filter(listed.val, [i \in DOMAIN listed.val |-> listed.val[i].total_cost <= target_cost])}} : TRUE
         : listed \in {get_available_rates_with_points(settings, base_rate, credit_score, ltv, loan_amount, loan_type, property_type, occupancy)}} : TRUE

-----------------------------------------------------------------------------
(* The pricing grid's calls.  The admin page stores json.dumps of a dict    *)
(* whose keys are str(round(rate, 3)) and whose values are floats; the      *)
(* other texts are what the settings table can hold without the admin page. *)

\* a ladder as the admin page generates it: credits above par, costs below
LadderGrid ==
    PyDict(<< <<(<<"7", ".", "0">>), PyNumber(-100000)>>,
              <<(<<"6", ".", "5">>), PyNumber(0)>>,
              <<(<<"6", ".", "0">>), PyNumber(100000)>> >>)

\* rates added by hand, in no order
ManualGrid ==
    PyDict(<< <<(<<"6", ".", "0">>), PyNumber(100000)>>,
              <<(<<"7", ".", "1", "2", "5">>), PyNumber(-112500)>>,
              <<(<<"6", ".", "5">>), PyNumber(0)>>,
              <<(<<"6", ".", "2", "5">>), PyNumber(50000)>> >>)

\* credits only, no par rate
CreditGrid ==
    PyDict(<< <<(<<"7", ".", "5">>), PyNumber(-200000)>>,
              <<(<<"7", ".", "0">>), PyNumber(-50000)>> >>)

SingleGrid == PyDict(<< <<(<<"6", ".", "5">>), PyNumber(0)>> >>)

FhaGrid ==
    PyDict(<< <<(<<"6", ".", "2", "5">>), PyNumber(0)>>,
              <<(<<"6", ".", "0">>), PyNumber(75000)>> >>)

WellFormedGrids == {LadderGrid, ManualGrid, CreditGrid, SingleGrid}

\* '[6.5]', '{"par": 0.0}', '{"6.5": "x"}': JSON, but not a grid
ListOfRates == PyList(<< <<(<<>>), PyNumber(650000)>> >>)

WordKeyGrid == PyDict(<< <<(<<"p", "a", "r">>), PyNumber(0)>> >>)

WordValueGrid == PyDict(<< <<(<<"6", ".", "5">>), PyStr(1)>> >>)

\* '{}', '[]', 'null' and a text that is not JSON
EmptyGridTexts == {JsonText(PyDict(<<>>)), JsonText(PyList(<<>>)), JsonText(PyNone), BrokenText}

MisshapenGridTexts == {JsonText(ListOfRates), JsonText(WordKeyGrid), JsonText(WordValueGrid)}

GridKey(loan_type) == GridKeyPrefix \o str_lower(loan_type)

ConventionalChars == <<"C", "o", "n", "v", "e", "n", "t", "i", "o", "n", "a", "l">>

FhaChars == <<"F", "H", "A">>

\* the settings table: the conventional grid varies, the FHA grid is fixed;
\* a NULL value, a missing conventional key, an empty table
SettingsChoices ==
    {GridKey(ConventionalChars) :> Some(t) @@ GridKey(FhaChars) :> Some(JsonText(FhaGrid)) :
        t \in {JsonText(g) : g \in WellFormedGrids} \cup EmptyGridTexts \cup MisshapenGridTexts}
    \cup {GridKey(ConventionalChars) :> None @@ GridKey(FhaChars) :> Some(JsonText(FhaGrid)),
          GridKey(FhaChars) :> Some(JsonText(FhaGrid)),
          EmptyDict}

GridLoanTypes == {ConventionalChars, str_lower(ConventionalChars), FhaChars, <<"V", "A">>}

\* budgets in dollars: a credit, nothing, the cost of half a point on
\* 250000, and more than any rate costs
TargetCosts == {Num(-1000), 0, Num(1250), Num(20000)}

GridBorrowers ==
    [base_rate : {650000}, credit_score : {640, 700, 780}, ltv : {Num(60), Num(80), Num(97)},
     loan_amount : {250000}, property_type : {"Single Family", "Condo"},
     occupancy : {"Primary Residence", "Investment Property"}]

PricingGridArgs == [settings : SettingsChoices, loan_type : GridLoanTypes]

\* the borrower b, the settings s, the loan type t and the budget c as one call
GridCall(b, s, t, c) ==
    [settings |-> s, target_cost |-> c, base_rate |-> b.base_rate, credit_score |-> b.credit_score,
     ltv |-> b.ltv, loan_amount |-> b.loan_amount, loan_type |-> t,
     property_type |-> b.property_type, occupancy |-> b.occupancy]

RatesArgs == {GridCall(b, s, t, 0) : b \in GridBorrowers, s \in SettingsChoices, t \in GridLoanTypes}

BestRateArgs == {GridCall(b, s, t, c) : b \in GridBorrowers, s \in SettingsChoices, t \in GridLoanTypes, c \in TargetCosts}

GridInit ==
    /\ pc = "call"
    /\ ret = None
    /\ \/ Draw("get_pricing_grid", PricingGridArgs)
       \/ Draw("get_available_rates_with_points", RatesArgs)
       \/ Draw("get_par_rate_for_borrower", RatesArgs)
       \/ Draw("get_best_rate_for_closing_cost", BestRateArgs)

GetPricingGrid ==
    /\ pc = "call"
    /\ op = "get_pricing_grid"
    /\ ret' = Ok(get_pricing_grid(args.settings, args.loan_type))
    /\ pc' = "done"
    /\ UNCHANGED <<op, args, db, session>>

GetAvailableRatesWithPoints ==
    /\ pc = "call"
    /\ op = "get_available_rates_with_points"
    /\ ret' = get_available_rates_with_points(args.settings, args.base_rate, args.credit_score, args.ltv, args.loan_amount, args.loan_type, args.property_type, args.occupancy)
    /\ pc' = "done"
    /\ UNCHANGED <<op, args, db, session>>

GetParRateForBorrower ==
    /\ pc = "call"
    /\ op = "get_par_rate_for_borrower"
    /\ ret' = get_par_rate_for_borrower(args.settings, args.base_rate, args.credit_score, args.ltv, args.loan_amount, args.loan_type, args.property_type, args.occupancy)
    /\ pc' = "done"
    /\ UNCHANGED <<op, args, db, session>>

GetBestRateForClosingCost ==
    /\ pc = "call"
    /\ op = "get_best_rate_for_closing_cost"
    /\ ret' = get_best_rate_for_closing_cost(args.target_cost, args.settings, args.base_rate, args.credit_score, args.ltv, args.loan_amount, args.loan_type, args.property_type, args.occupancy)
    /\ pc' = "done"
    /\ UNCHANGED <<op, args, db, session>>

GridNext ==
    \/ GetPricingGrid
    \/ GetAvailableRatesWithPoints
    \/ GetParRateForBorrower
    \/ GetBestRateForClosingCost

GridSpec == GridInit /\ [][GridNext]_vars

-----------------------------------------------------------------------------
(* FHA mortgage insurance: utils/rate_calculator.py and utils/llpa.py       *)
(*                                                                           *)
(* Rates are fixed point with five decimals (Num).  A dollar amount that is  *)
(* a product or quotient of the loan amount is kept as an exact fraction.    *)

Frac(n, d) == [num |-> n, den |-> d]

fha_base_limit == 726200

\* mutant: an LTV of exactly 90 is priced and insured as above 90
get_fha_mip_info_exclusive(ltv, loan_amount, loan_term) ==
    LET upfront_mip_rate   == 175000
        upfront_mip_amount == Frac(loan_amount * 7, 400)
        annual_mip ==
            IF loan_term > 15
            THEN IF loan_amount <= fha_base_limit
                 THEN (IF ltv < Num(90) THEN 50000 ELSE 55000)
                 ELSE (IF ltv < Num(90) THEN 70000 ELSE 75000)
            ELSE IF loan_amount <= fha_base_limit
                 THEN (IF ltv < Num(90) THEN 15000 ELSE 40000)
                 ELSE (IF ltv < Num(90) THEN 40000 ELSE 65000)
        monthly_mip  == Frac(loan_amount * (annual_mip \div 1000), 120000)
        mip_duration == IF ltv < Num(90) THEN "11 years" ELSE "Life of loan"
    IN  [upfront_mip_rate      |-> upfront_mip_rate,
         upfront_mip_amount    |-> upfront_mip_amount,
         annual_mip_rate       |-> annual_mip,
         monthly_mip           |-> monthly_mip,
         mip_duration          |-> mip_duration,
         total_loan_with_ufmip |-> Frac(loan_amount * 400 + upfront_mip_amount.num, 400)]

\* rate_calculator.get_fha_mip_info; 0.0175 is 7/400, and annual_mip is a
\* whole number of hundredths of a percent, so monthly_mip is
\* loan_amount * hundredths / 120000
get_fha_mip_info(ltv, loan_amount, loan_term) ==
    LET upfront_mip_rate   == 175000
        upfront_mip_amount == Frac(loan_amount * 7, 400)
        annual_mip ==
            IF loan_term > 15
            THEN IF loan_amount <= fha_base_limit
                 THEN (IF ltv <= Num(90) THEN 50000 ELSE 55000)
                 ELSE (IF ltv <= Num(90) THEN 70000 ELSE 75000)
            ELSE IF loan_amount <= fha_base_limit
                 THEN (IF ltv <= Num(90) THEN 15000 ELSE 40000)
                 ELSE (IF ltv <= Num(90) THEN 40000 ELSE 65000)
        monthly_mip  == Frac(loan_amount * (annual_mip \div 1000), 120000)
        mip_duration == IF ltv <= Num(90) THEN "11 years" ELSE "Life of loan"
    IN  [upfront_mip_rate      |-> upfront_mip_rate,
         upfront_mip_amount    |-> upfront_mip_amount,
         annual_mip_rate       |-> annual_mip,
         monthly_mip           |-> monthly_mip,
         mip_duration          |-> mip_duration,
         total_loan_with_ufmip |-> Frac(loan_amount * 400 + upfront_mip_amount.num, 400)]

llpa_fha_base_limit == 726200

\* llpa.get_fha_mip
get_fha_mip(ltv, loan_amount, loan_term_years) ==
    LET upfront_mip_rate   == 175000
        upfront_mip_amount == Frac(loan_amount * 7, 400)
        annual_mip ==
            IF loan_term_years > 15
            THEN IF loan_amount <= llpa_fha_base_limit
                 THEN (IF ltv <= Num(90) THEN 50000 ELSE 55000)
                 ELSE (IF ltv <= Num(90) THEN 70000 ELSE 75000)
            ELSE IF loan_amount <= llpa_fha_base_limit
                 THEN (IF ltv <= Num(90) THEN 15000 ELSE 40000)
                 ELSE (IF ltv <= Num(90) THEN 40000 ELSE 65000)
        monthly_mip  == Frac(loan_amount * (annual_mip \div 1000), 120000)
        mip_duration == IF ltv <= Num(90) THEN "11 years" ELSE "Life of loan"
    IN  [upfront_mip_rate      |-> upfront_mip_rate,
         upfront_mip_amount    |-> upfront_mip_amount,
         annual_mip_rate       |-> annual_mip,
         monthly_mip           |-> monthly_mip,
         mip_duration          |-> mip_duration,
         total_loan_with_ufmip |-> Frac(loan_amount * 400 + upfront_mip_amount.num, 400)]

\* LTVs, loan amounts and terms at and around 90, 726200 and 15
MipLtvs == {Num(90) + k * 1000 : k \in (-EdgeDelta)..EdgeDelta} \cup {Num(80), 9650000}

MipLoanAmounts == {fha_base_limit + k : k \in (-EdgeDelta)..EdgeDelta} \cup {250000}

MipTerms == {15 + k : k \in (-EdgeDelta)..EdgeDelta} \cup {10, 30}

MipArgs == [ltv : MipLtvs, loan_amount : MipLoanAmounts, loan_term : MipTerms]

MipInit ==
    /\ pc = "call"
    /\ ret = None
    /\ \/ Draw("get_fha_mip_info", MipArgs)
       \/ Draw("get_fha_mip", MipArgs)

GetFhaMipInfo ==
    /\ pc = "call"
    /\ op = "get_fha_mip_info"
    /\ ret' = Ok(get_fha_mip_info(args.ltv, args.loan_amount, args.loan_term))
    /\ pc' = "done"
    /\ UNCHANGED <<op, args, db, session>>

GetFhaMip ==
    /\ pc = "call"
    /\ op = "get_fha_mip"
    /\ ret' = Ok(get_fha_mip(args.ltv, args.loan_amount, args.loan_term))
    /\ pc' = "done"
    /\ UNCHANGED <<op, args, db, session>>

MipNext ==
    \/ GetFhaMipInfo
    \/ GetFhaMip

MipSpec == MipInit /\ [][MipNext]_vars

-----------------------------------------------------------------------------
(* Mortality weights of the ENPV calculations: pages/other_tools.py          *)
(* (render_enpv_analysis) and pages/other_other_tools.py                     *)
(* (render_buy_points_analysis)                                              *)
(*                                                                           *)
(* Probabilities are fixed point with nine decimals; every product is        *)
(* rounded to the nearest unit, as a float product is rounded to the         *)
(* nearest float.                                                            *)

PS == 1000000000

\* y ** 12
Pow12(y) ==
    CHOOSE r \in
        {CHOOSE q \in
             {CHOOSE p \in {MulDiv(y6, y6, PS) : y6 \in {MulDiv(y4, y2, PS)}} : TRUE
              : y4 \in {MulDiv(y2, y2, PS)}} : TRUE
         : y2 \in {MulDiv(y, y, PS)}} : TRUE

RECURSIVE Root12In(_, _, _)
Root12In(x, lo, hi) ==
    IF hi - lo <= 1 THEN lo
    ELSE CHOOSE r \in
             {IF Pow12(mid) <= x THEN Root12In(x, mid, hi) ELSE Root12In(x, lo, mid)
              : mid \in {(lo + hi) \div 2}} : TRUE

\* x ** (1/12) for 0 <= x <= 1
Root12(x) == IF x >= PS THEN PS ELSE Root12In(x, 0, PS)

\* SMM = 1 - (1 - cpr)**(1/12)
SingleMonthlyMortality(cpr) == PS - Root12(PS - cpr)

\* sum(s[lo..hi]), halving the range
RECURSIVE SumRange(_, _, _)
SumRange(s, lo, hi) ==
    IF lo > hi THEN 0
    ELSE IF lo = hi THEN s[lo]
    ELSE CHOOSE r \in
             {SumRange(s, lo, mid) + SumRange(s, mid + 1, hi)
              : mid \in {(lo + hi) \div 2}} : TRUE

\* sum(s)
PySum(s) == SumRange(s, 1, Len(s))

\* the number_inputs "CPR (annual %)" and "Annual Probability of Moving (%)",
\* 0.0 to 50.0, divided by 100
AnnualPercents == {0, 1, 10, 20, 21, 35, 50}

EnpvArgs == [enpv_cpr : {c * (PS \div 100) : c \in AnnualPercents}]

\* the number_input "Loan Term (years)", 15 to 30
LoanTerms == {15, 30}

BuyPointsArgs == [points_move_prob : {c * (PS \div 100) : c \in AnnualPercents}, points_loan_term : LoanTerms]

MortalityInit ==
    /\ pc = "call"
    /\ ret = None
    /\ \/ Draw("render_enpv_analysis", EnpvArgs)
       \/ Draw("render_buy_points_analysis", BuyPointsArgs)

\* render_enpv_analysis up to the loop: SMM, survival = 1.0, mortality = []
EnpvBegin ==
    /\ pc = "call"
    /\ op = "render_enpv_analysis"
    /\ ret' = [SMM       |-> SingleMonthlyMortality(args.enpv_cpr),
               survival  |-> PS,
               mortality |-> <<>>,
               t         |-> 0]
    /\ pc' = "loop"
    /\ UNCHANGED <<op, args, db, session>>

\* one pass of 'for t in range(360)'; ret.t passes are behind
EnpvMonth ==
    /\ pc = "loop"
    /\ op = "render_enpv_analysis"
    /\ ret.t < 360
    /\ ret' = [SMM       |-> ret.SMM,
               survival  |-> MulDiv(ret.survival, PS - ret.SMM, PS),
               mortality |-> Append(ret.mortality, MulDiv(ret.survival, ret.SMM, PS)),
               t         |-> ret.t + 1]
    /\ UNCHANGED <<pc, op, args, db, session>>

\* after the loop: 'if survival > 0.001: mortality[-1] += survival'
EnpvResidual ==
    /\ pc = "loop"
    /\ op = "render_enpv_analysis"
    /\ ret.t = 360
    /\ ret' = IF ret.survival > PS \div 1000
              THEN [ret EXCEPT !.mortality[360] = @ + ret.survival]
              ELSE ret
    /\ pc' = "done"
    /\ UNCHANGED <<op, args, db, session>>

\* render_buy_points_analysis up to the ENPV loop; ret.mortality lists the
\* values the local 'mortality' takes, one a month
BuyPointsBegin ==
    /\ pc = "call"
    /\ op = "render_buy_points_analysis"
    /\ ret' = [SMM       |-> SingleMonthlyMortality(args.points_move_prob),
               survival  |-> PS,
               mortality |-> <<>>,
               t         |-> 0]
    /\ pc' = "loop"
    /\ UNCHANGED <<op, args, db, session>>

\* one pass of 'for month in range(1, n_months + 1)', n_months = int(points_loan_term * 12)
BuyPointsMonth ==
    /\ pc = "loop"
    /\ op = "render_buy_points_analysis"
    /\ ret.t < args.points_loan_term * 12
    /\ ret' = [SMM       |-> ret.SMM,
               survival  |-> MulDiv(ret.survival, PS - ret.SMM, PS),
               mortality |-> Append(ret.mortality, MulDiv(ret.survival, ret.SMM, PS)),
               t         |-> ret.t + 1]
    /\ UNCHANGED <<pc, op, args, db, session>>

\* the loop is over and enpv is shown
BuyPointsEnd ==
    /\ pc = "loop"
    /\ op = "render_buy_points_analysis"
    /\ ret.t = args.points_loan_term * 12
    /\ pc' = "done"
    /\ UNCHANGED <<op, args, ret, db, session>>

MortalityNext ==
    \/ EnpvBegin
    \/ EnpvMonth
    \/ EnpvResidual
    \/ BuyPointsBegin
    \/ BuyPointsMonth
    \/ BuyPointsEnd

MortalitySpec == MortalityInit /\ [][MortalityNext]_vars

-----------------------------------------------------------------------------
(* Month-by-month amortization: pages/other_tools.py (compute_enpv_full)     *)
(* and pages/other_other_tools.py (the scenario comparison of                *)
(* render_buy_points_analysis)                                               *)
(*                                                                           *)
(* Dollar amounts are fixed point with three decimals, rates fixed point     *)
(* with nine; every product and quotient is rounded to the nearest unit, as  *)
(* a float operation is rounded to the nearest float.                        *)

MS == 1000

\* v ** n by repeated squaring
RECURSIVE PowFixed(_, _)
PowFixed(v, n) ==
    IF n = 0 THEN PS
    ELSE CHOOSE r \in
             {CHOOSE q \in
                  {IF n % 2 = 1 THEN MulDiv(sq, v, PS) ELSE sq
                   : sq \in {MulDiv(h, h, PS)}} : TRUE
              : h \in {PowFixed(v, n \div 2)}} : TRUE

\* payment(principal, monthly_rate, n_months), n_months > 0;
\* (1.0 + monthly_rate) ** (-n_months) is (1 / (1 + monthly_rate)) ** n_months
payment(principal, monthly_rate, n_months) ==
    IF monthly_rate = 0 THEN MulDiv(principal, 1, n_months)
    ELSE CHOOSE r \in
             {MulDiv(MulDiv(principal, monthly_rate, PS), PS, denom)
              : denom \in {PS - PowFixed(MulDiv(PS, PS, PS + monthly_rate), n_months)}} : TRUE

\* max(0.0, x)
Max0(x) == IF x > 0 THEN x ELSE 0

\* one month of a loan in compute_enpv_full: the balance after month t
enpv_balance(t, n, bal, r, pmt) ==
    IF t <= n /\ bal > 0
    THEN Max0(bal - (pmt - MulDiv(r, bal, PS)))
    ELSE 0

\* one month of a scenario in render_buy_points_analysis: bal -= pmt - bal * r
comparison_balance(bal, r, pmt) == bal - (pmt - MulDiv(bal, r, PS))

EnpvFullArgs ==
    [current_balance       : {100000 * MS, 400000 * MS},
     current_rate          : {65 * (PS \div 1000)},
     new_rate              : {0, 55 * (PS \div 1000)},
     remaining_years_old   : {25},
     new_term_years        : {15, 30},
     closing_costs         : {3000 * MS},
     finance_costs_in_loan : BOOLEAN]

\* two scenarios of the table, each a rate (as a fraction) and its actual cost
ComparisonArgs ==
    [points_loan_amount : {100000 * MS, 400000 * MS},
     points_loan_term   : {15, 30},
     rate1              : {60 * (PS \div 1000)},
     cost1              : {0},
     rate2              : {55 * (PS \div 1000), 30 * (PS \div 1000)},
     cost2              : {4000 * MS}]

AmortizationInit ==
    /\ pc = "call"
    /\ ret = None
    /\ \/ Draw("compute_enpv_full", EnpvFullArgs)
       \/ Draw("render_buy_points_analysis", ComparisonArgs)

n_old == args.remaining_years_old * 12

n_new == args.new_term_years * 12

horizon == IF n_old >= n_new THEN n_old ELSE n_new

r_old == MulDiv(args.current_rate, 1, 12)

r_new == MulDiv(args.new_rate, 1, 12)

old_principal == args.current_balance

new_principal ==
    IF args.finance_costs_in_loan THEN args.current_balance + args.closing_costs
    ELSE args.current_balance

\* compute_enpv_full up to the loop
EnpvFullBegin ==
    /\ pc = "call"
    /\ op = "compute_enpv_full"
    /\ ret' = [pmt_old |-> payment(old_principal, r_old, n_old),
               pmt_new |-> payment(new_principal, r_new, n_new),
               bal_old |-> old_principal,
               bal_new |-> new_principal,
               t       |-> 0,
               history |-> <<>>]
    /\ pc' = "loop"
    /\ UNCHANGED <<op, args, db, session>>

\* one pass of 'for t in range(1, horizon + 1)'; of rec, the month and the two
\* balances are kept (nothing else of the pass feeds a balance)
EnpvFullMonth ==
    /\ pc = "loop"
    /\ op = "compute_enpv_full"
    /\ ret.t < horizon
    /\ ret' = CHOOSE next \in
                  {[ret EXCEPT !.bal_old = bo, !.bal_new = bn, !.t = ret.t + 1,
                               !.history = Append(@, [month |-> ret.t + 1, bal_old |-> bo, bal_new |-> bn])]
                   : bo \in {enpv_balance(ret.t + 1, n_old, ret.bal_old, r_old, ret.pmt_old)},
                     bn \in {enpv_balance(ret.t + 1, n_new, ret.bal_new, r_new, ret.pmt_new)}} : TRUE
    /\ UNCHANGED <<pc, op, args, db, session>>

\* return history, pmt_old, pmt_new, gamma_month
EnpvFullReturn ==
    /\ pc = "loop"
    /\ op = "compute_enpv_full"
    /\ ret.t = horizon
    /\ pc' = "done"
    /\ UNCHANGED <<op, args, ret, db, session>>

n_months == args.points_loan_term * 12

r1_monthly == MulDiv(args.rate1, 1, 12)

r2_monthly == MulDiv(args.rate2, 1, 12)

principal1 == args.points_loan_amount + args.cost1

principal2 == args.points_loan_amount + args.cost2

\* render_buy_points_analysis from the payments to the comparison loop;
\* ret.history lists the values bal1 and bal2 take, one pair a month
ComparisonBegin ==
    /\ pc = "call"
    /\ op = "render_buy_points_analysis"
    /\ ret' = [pmt1    |-> payment(principal1, r1_monthly, n_months),
               pmt2    |-> payment(principal2, r2_monthly, n_months),
               bal1    |-> principal1,
               bal2    |-> principal2,
               t       |-> 0,
               history |-> <<>>]
    /\ pc' = "loop"
    /\ UNCHANGED <<op, args, db, session>>

\* one pass of 'for month in range(1, n_months + 1)'
ComparisonMonth ==
    /\ pc = "loop"
    /\ op = "render_buy_points_analysis"
    /\ ret.t < n_months
    /\ ret' = CHOOSE next \in
                  {[ret EXCEPT !.bal1 = b1, !.bal2 = b2, !.t = ret.t + 1,
                               !.history = Append(@, [month |-> ret.t + 1, bal1 |-> b1, bal2 |-> b2])]
                   : b1 \in {comparison_balance(ret.bal1, r1_monthly, ret.pmt1)},
                     b2 \in {comparison_balance(ret.bal2, r2_monthly, ret.pmt2)}} : TRUE
    /\ UNCHANGED <<pc, op, args, db, session>>

\* the loop is over and the results are shown
ComparisonEnd ==
    /\ pc = "loop"
    /\ op = "render_buy_points_analysis"
    /\ ret.t = n_months
    /\ pc' = "done"
    /\ UNCHANGED <<op, args, ret, db, session>>

AmortizationNext ==
    \/ EnpvFullBegin
    \/ EnpvFullMonth
    \/ EnpvFullReturn
    \/ ComparisonBegin
    \/ ComparisonMonth
    \/ ComparisonEnd

AmortizationSpec == AmortizationInit /\ [][AmortizationNext]_vars

-----------------------------------------------------------------------------
(* Client records: pages/add_client.py (calculate_client_rates) and          *)
(* database.py (bulk_update_client_rates)                                    *)
(*                                                                           *)
(* A client record is a dict from column names to optional values: None for  *)
(* NULL, Some(x) otherwise.  The mortgage rate, the balance, the years and   *)
(* the economic parameters are floats of the threshold solver; the credit    *)
(* score, the LTV and the loan amount are the numbers of the LLPA tables.    *)
(* A stored rate is a decimal with seven places, so that a trigger rate      *)
(* (four places) and an available rate (percent with five) subtract exactly. *)

\* the columns of the economic parameters and the admin setting and the
\* key of get_defaults() of each
EconomicFields == {"discount_rate", "rate_volatility", "tax_rate", "fixed_refi_cost", "points_pct", "prob_moving", "inflation_rate"}

DefaultKey ==
    [discount_rate   |-> "discount_rate",
     rate_volatility |-> "volatility",
     tax_rate        |-> "tax_rate",
     fixed_refi_cost |-> "fixed_cost",
     points_pct      |-> "points",
     prob_moving     |-> "prob_moving",
     inflation_rate  |-> "inflation"]

\* the literals of bulk_update_client_rates: 0.05, 0.0109, 0.28, 2000, 0.01, 0.10, 0.03
BulkLiteral ==
    [discount_rate   |-> PyFloat(500),
     rate_volatility |-> PyFloat(109),
     tax_rate        |-> PyFloat(2800),
     fixed_refi_cost |-> Lit(2000),
     points_pct      |-> PyFloat(100),
     prob_moving     |-> PyFloat(1000),
     inflation_rate  |-> PyFloat(300)]

\* get_defaults(): float(settings.get('default_...', literal)); the settings
\* hold the texts of numbers
get_defaults(settings) ==
    [discount_rate          |-> Get(settings, "default_discount_rate", PyFloat(500)),
     volatility             |-> Get(settings, "default_volatility", PyFloat(109)),
     tax_rate               |-> Get(settings, "default_tax_rate", PyFloat(2800)),
     fixed_cost             |-> Get(settings, "default_fixed_cost", Lit(2000)),
     points                 |-> Get(settings, "default_points", PyFloat(100)),
     prob_moving            |-> Get(settings, "default_prob_moving", PyFloat(1000)),
     inflation              |-> Get(settings, "default_inflation", PyFloat(300)),
     base_rate_conventional |-> Get(settings, "base_rate_conventional", 650000),
     base_rate_fha          |-> Get(settings, "base_rate_fha", 625000)]

\* calculate_trigger_rate called with optional arguments: arithmetic on None
\* raises TypeError
trigger_rate_call(current_rate, remaining_balance, remaining_years, discount_rate, volatility, tax_rate, fixed_cost, points, prob_moving, inflation_rate) ==
    IF \E argument \in {current_rate, remaining_balance, remaining_years, discount_rate, volatility, tax_rate, fixed_cost, points, prob_moving, inflation_rate} : argument = None
    THEN Raise("TypeError")
    ELSE calculate_trigger_rate(current_rate[1], remaining_balance[1], remaining_years[1], discount_rate[1], volatility[1], tax_rate[1], fixed_cost[1], points[1], prob_moving[1], inflation_rate[1])

\* calculate_available_rate called with optional arguments: None.upper()
\* raises AttributeError, a comparison of None with a number TypeError
available_rate_call(base_rate, credit_score, ltv, loan_amount, loan_type, property_type, occupancy) ==
    IF loan_type = None THEN Raise("AttributeError")
    ELSE IF str_upper(loan_type[1]) = FhaChars
    THEN calculate_available_rate(base_rate, 0, 0, 0, loan_type[1], "", "", 0)
    ELSE IF credit_score = None \/ ltv = None \/ loan_amount = None \/ property_type = None \/ occupancy = None
    THEN Raise("TypeError")
    ELSE calculate_available_rate(base_rate, credit_score[1], ltv[1], loan_amount[1], loan_type[1], property_type[1], occupancy[1], 0)

\* trigger_rate - available_rate, the trigger rate a float of four places and
\* the available rate a decimal of seven
rate_minus(trigger_rate, available_rate) ==
    IF trigger_rate.k = "fin"
    THEN [k |-> "fin", np |-> trigger_rate.np, v |-> trigger_rate.v * 1000 - available_rate]
    ELSE trigger_rate

\* mutant: the difference is taken the other way round
rate_fields_reversed(result, rate_info) ==
    CHOOSE fields \in
        {[optimal_rate_drop  |-> result.optimal_threshold_bps,
          trigger_rate       |-> result.trigger_rate,
          available_rate     |-> Some(rate_info.final_rate),
          difference         |-> difference,
          ready_to_refinance |-> IF difference # None /\ ~IsZero(difference[1])
                                 THEN difference[1].k # "nan" /\ difference[1].v > 0
                                 ELSE FALSE]
         : difference \in {IF Truthy(result.trigger_rate)
                           THEN Some(fneg(rate_minus(result.trigger_rate[1], rate_info.final_rate)))
                           ELSE None}} : TRUE

\* the five calculated fields, from the results of the two calculators:
\*   difference = trigger_rate - available_rate if trigger_rate else None
\*   ready = difference > 0 if difference else False
rate_fields(result, rate_info) ==
    CHOOSE fields \in
        {[optimal_rate_drop  |-> result.optimal_threshold_bps,
          trigger_rate       |-> result.trigger_rate,
          available_rate     |-> Some(rate_info.final_rate),
          difference         |-> difference,
          ready_to_refinance |-> IF difference # None /\ ~IsZero(difference[1])
                                 THEN difference[1].k # "nan" /\ difference[1].v > 0
                                 ELSE FALSE]
         : difference \in {IF Truthy(result.trigger_rate)
                           THEN Some(rate_minus(result.trigger_rate[1], rate_info.final_rate))
                           ELSE None}} : TRUE

\* a balance in whole dollars
Dollars(balance) == balance.v \div FS

\* x or y
Or(x, y) == IF x # None /\ x[1] # 0 THEN x ELSE y

\* the keys calculate_client_rates subscripts
RequiredKeys == {"current_mortgage_rate", "current_mortgage_balance", "remaining_years", "credit_score", "ltv"}

\* add_client.calculate_client_rates
calculate_client_rates(client_data, defaults) ==
    IF ~(RequiredKeys \subseteq DOMAIN client_data) THEN Raise("KeyError")
    ELSE CHOOSE rates \in
             {IF result.exc # "none" THEN result
              ELSE CHOOSE r \in
                       {IF rate_info.exc # "none" THEN rate_info
                        ELSE Ok(rate_fields(result.val, rate_info.val))
                        : rate_info \in
                            {available_rate_call(
                                 IF Get(client_data, "loan_type", None) = Some(FhaChars)
                                 THEN defaults.base_rate_fha
                                 ELSE defaults.base_rate_conventional,
                                 client_data["credit_score"],
                                 client_data["ltv"],
                                 Or(Get(client_data, "loan_amount", None),
                                    Some(Dollars(client_data["current_mortgage_balance"][1]))),
                                 Get(client_data, "loan_type", Some(ConventionalChars)),
                                 Get(client_data, "property_type", Some("Single Family")),
                                 Get(client_data, "occupancy", Some("Primary Residence")))}} : TRUE
              : result \in
                  {trigger_rate_call(
                       client_data["current_mortgage_rate"],
                       client_data["current_mortgage_balance"],
                       client_data["remaining_years"],
                       Get(client_data, "discount_rate", Some(defaults.discount_rate)),
                       Get(client_data, "rate_volatility", Some(defaults.volatility)),
                       Get(client_data, "tax_rate", Some(defaults.tax_rate)),
                       Get(client_data, "fixed_refi_cost", Some(defaults.fixed_cost)),
                       Get(client_data, "points_pct", Some(defaults.points)),
                       Get(client_data, "prob_moving", Some(defaults.prob_moving)),
                       Get(client_data, "inflation_rate", Some(defaults.inflation)))}} : TRUE

\* bool(x) of an optional float
TruthyFloat(x) == x # None /\ ~IsZero(x[1])

\* one pass of the loop of bulk_update_client_rates for a row of the clients
\* table (a dict with every column): None when the row is skipped, else the
\* fields handed to update_client
bulk_client_rates(client, base_rate_conv, base_rate_fha) ==
    IF ~(TruthyFloat(client["current_mortgage_rate"]) /\ TruthyFloat(client["current_mortgage_balance"]))
    THEN Ok(None)
    ELSE CHOOSE rates \in
             {IF result.exc # "none" THEN result
              ELSE CHOOSE r \in
                       {IF rate_info.exc # "none" THEN rate_info
                        ELSE Ok(Some(rate_fields(result.val, rate_info.val)))
                        : rate_info \in
                            {available_rate_call(
                                 IF Get(client, "loan_type", None) = Some(FhaChars)
                                 THEN base_rate_fha
                                 ELSE base_rate_conv,
                                 Get(client, "credit_score", Some(720)),
                                 Get(client, "ltv", Some(Num(80))),
                                 Or(Get(client, "loan_amount", None),
                                    Some(Dollars(client["current_mortgage_balance"][1]))),
                                 Get(client, "loan_type", Some(ConventionalChars)),
                                 Get(client, "property_type", Some("Single Family")),
                                 Get(client, "occupancy", Some("Primary Residence")))}} : TRUE
              : result \in
                  {trigger_rate_call(
                       client["current_mortgage_rate"],
                       client["current_mortgage_balance"],
                       Get(client, "remaining_years", Some(Lit(25))),
                       Get(client, "discount_rate", Some(BulkLiteral.discount_rate)),
                       Get(client, "rate_volatility", Some(BulkLiteral.rate_volatility)),
                       Get(client, "tax_rate", Some(BulkLiteral.tax_rate)),
                       Get(client, "fixed_refi_cost", Some(BulkLiteral.fixed_refi_cost)),
                       Get(client, "points_pct", Some(BulkLiteral.points_pct)),
                       Get(client, "prob_moving", Some(BulkLiteral.prob_moving)),
                       Get(client, "inflation_rate", Some(BulkLiteral.inflation_rate)))}} : TRUE

\* the admin settings table as stored by init_database, and after the admin
\* saved other default parameters
FactorySettings ==
    [default_discount_rate  |-> PyFloat(500),
     default_volatility     |-> PyFloat(109),
     default_tax_rate       |-> PyFloat(2800),
     default_fixed_cost     |-> Lit(2000),
     default_points         |-> PyFloat(100),
     default_prob_moving    |-> PyFloat(1000),
     default_inflation      |-> PyFloat(300),
     base_rate_conventional |-> 650000,
     base_rate_fha          |-> 625000]

ChangedSettings ==
    [default_discount_rate  |-> PyFloat(600),
     default_volatility     |-> PyFloat(120),
     default_tax_rate       |-> PyFloat(2500),
     default_fixed_cost     |-> Lit(3000),
     default_points         |-> PyFloat(50),
     default_prob_moving    |-> PyFloat(800),
     default_inflation      |-> PyFloat(200),
     base_rate_conventional |-> 650000,
     base_rate_fha          |-> 625000]

\* a borrower record with every column filled
FullClient ==
    [current_mortgage_rate    |-> Some(PyFloat(650)),
     current_mortgage_balance |-> Some(Lit(100000)),
     remaining_years          |-> Some(Lit(25)),
     credit_score             |-> Some(740),
     ltv                      |-> Some(Num(80)),
     loan_amount              |-> Some(100000),
     loan_type                |-> Some(ConventionalChars),
     property_type            |-> Some("Single Family"),
     occupancy                |-> Some("Primary Residence"),
     discount_rate            |-> Some(PyFloat(500)),
     rate_volatility          |-> Some(PyFloat(109)),
     tax_rate                 |-> Some(PyFloat(2800)),
     fixed_refi_cost          |-> Some(Lit(2000)),
     points_pct               |-> Some(PyFloat(100)),
     prob_moving              |-> Some(PyFloat(1000)),
     inflation_rate           |-> Some(PyFloat(300))]

\* the record without some keys (a dict handed to calculate_client_rates) and
\* with NULL in some columns (a row of the clients table)
WithoutKeys(client, absent) == [key \in DOMAIN client \ absent |-> client[key]]

WithNulls(client, absent) == [key \in DOMAIN client |-> IF key \in absent THEN None ELSE client[key]]

\* the record with the admin's defaults in place of the absent parameters
WithDefaults(client, absent, defaults) == [key \in DOMAIN client |-> IF key \in absent THEN Some(defaults[DefaultKey[key]]) ELSE client[key]]

DefaultsArgs ==
    [absent : SUBSET EconomicFields, settings : {FactorySettings, ChangedSettings}]

DefaultsInit ==
    /\ pc = "call"
    /\ ret = None
    /\ \/ Draw("calculate_client_rates", DefaultsArgs)
       \/ Draw("bulk_update_client_rates", DefaultsArgs)

\* the add/edit path: the rates of a record that lacks some parameters
CalculateClientRates ==
    /\ pc = "call"
    /\ op = "calculate_client_rates"
    /\ ret' = calculate_client_rates(WithoutKeys(FullClient, args.absent), get_defaults(args.settings))
    /\ pc' = "done"
    /\ UNCHANGED <<op, args, db, session>>

\* the bulk path: one pass of the loop for a row with NULL parameters
BulkClientRates ==
    /\ pc = "call"
    /\ op = "bulk_update_client_rates"
    /\ ret' = bulk_client_rates(WithNulls(FullClient, args.absent), get_defaults(args.settings).base_rate_conventional, get_defaults(args.settings).base_rate_fha)
    /\ pc' = "done"
    /\ UNCHANGED <<op, args, db, session>>

DefaultsNext ==
    \/ CalculateClientRates
    \/ BulkClientRates

DefaultsSpec == DefaultsInit /\ [][DefaultsNext]_vars

-----------------------------------------------------------------------------
(* The clients table: database.py (create_client, update_client,             *)
(* bulk_update_client_rates) and pages/add_client.py (the add and the edit   *)
(* form).  db.clients is the table, a row's id its index; db.settings is the *)
(* admin_settings table.  A running bulk_update_client_rates keeps its       *)
(* locals in ret: the rows it fetched, its position in them, the count.      *)

\* the five calculated columns
CalculatedFields == {"optimal_rate_drop", "trigger_rate", "available_rate", "difference", "ready_to_refinance"}

\* the columns of a row of the clients table that the calculations read or write
ClientColumns == DOMAIN FullClient \cup CalculatedFields \cup {"loan_officer_id", "last_rate_check"}

\* the values create_client inserts for keys the dict lacks
CreateDefault ==
    [property_type      |-> Some("Single Family"),
     occupancy          |-> Some("Primary Residence"),
     loan_type          |-> Some(ConventionalChars),
     discount_rate      |-> Some(PyFloat(500)),
     rate_volatility    |-> Some(PyFloat(109)),
     tax_rate           |-> Some(PyFloat(2800)),
     fixed_refi_cost    |-> Some(Lit(2000)),
     points_pct         |-> Some(PyFloat(100)),
     prob_moving        |-> Some(PyFloat(1000)),
     inflation_rate     |-> Some(PyFloat(300)),
     ready_to_refinance |-> FALSE]

\* the row create_client inserts
create_client(loan_officer_id, client_data) ==
    [column \in ClientColumns |->
        IF column = "loan_officer_id" THEN Some(loan_officer_id)
        ELSE IF column = "last_rate_check" THEN None
        ELSE IF column \in DOMAIN client_data THEN client_data[column]
        ELSE IF column \in DOMAIN CreateDefault THEN CreateDefault[column]
        ELSE None]

\* dict.update
DictUpdate(d, other) == [key \in DOMAIN d \cup DOMAIN other |-> IF key \in DOMAIN other THEN other[key] ELSE d[key]]

\* the fields update_client may write
allowed_fields == (DOMAIN FullClient) \cup CalculatedFields \cup {"last_rate_check"}

\* the clients table after update_client: UPDATE ... WHERE id = ?
update_client(clients, client_id, client_data) ==
    IF client_id \in DOMAIN clients
    THEN [clients EXCEPT ![client_id] = [column \in DOMAIN @ |-> IF column \in allowed_fields /\ column \in DOMAIN client_data THEN client_data[column] ELSE @[column]]]
    ELSE clients

\* the loan officers and the ids of the rows they may insert
Officers == {2, 3}

ClientIds == {1}

\* what a loan officer may submit in the add or the edit form: a mortgage rate
\* of 0%, 6.5% or 12%
ClientForms ==
    {[FullClient EXCEPT !.current_mortgage_rate = Some(PyFloat(rate))] : rate \in {0, 650, 1200}}

\* calculate_client_rates(client_data, get_defaults()), evaluated once for each
\* form under the settings of init_database
FactoryRates == [client_data \in ClientForms |-> calculate_client_rates(client_data, get_defaults(FactorySettings))]

submitted_rates(client_data, settings) ==
    IF settings = FactorySettings /\ client_data \in ClientForms
    THEN FactoryRates[client_data]
    ELSE calculate_client_rates(client_data, get_defaults(settings))

ClientInit ==
    /\ pc = "call"
    /\ op = "bulk_update_client_rates"
    /\ args = [loan_officer_id |-> None]
    /\ ret = None
    /\ db = [settings |-> FactorySettings, clients |-> <<>>]
    /\ session = NoSession

\* render_add_client, the form submitted: the rates are calculated and the
\* row is inserted
AddClient ==
    /\ Len(db.clients) + 1 \in ClientIds
    /\ \E user_id \in Officers, client_data \in ClientForms :
          \E rate_data \in {submitted_rates(client_data, db.settings)} :
              /\ rate_data.exc = "none"
              /\ db' = [db EXCEPT !.clients = Append(@, create_client(user_id, DictUpdate(client_data, rate_data.val)))]
    /\ UNCHANGED <<pc, op, args, ret, session>>

\* render_edit_client, the form submitted: the rates are calculated and every
\* field of the row is written
EditClient ==
    /\ \E client_id \in DOMAIN db.clients, client_data \in ClientForms :
          \E rate_data \in {submitted_rates(client_data, db.settings)} :
              /\ rate_data.exc = "none"
              /\ db' = [db EXCEPT !.clients = update_client(@, client_id, DictUpdate(client_data, rate_data.val))]
    /\ UNCHANGED <<pc, op, args, ret, session>>

\* the rows SELECT * FROM clients [WHERE loan_officer_id = ?] returns
SelectClients(clients, loan_officer_id) ==
    SelectSeq([client_id \in DOMAIN clients |-> [id |-> client_id, row |-> clients[client_id]]],
              LAMBDA client : loan_officer_id = None \/ client.row["loan_officer_id"] = loan_officer_id)

\* bulk_update_client_rates up to its loop: the rows are fetched, the
\* connection is closed and the base rates are loaded
BulkSelect ==
    /\ pc \in {"call", "done"}
    /\ op = "bulk_update_client_rates"
    /\ \E loan_officer_id \in {None} \cup {Some(user_id) : user_id \in Officers} :
          /\ args' = [loan_officer_id |-> loan_officer_id]
          /\ ret' = [clients        |-> SelectClients(db.clients, loan_officer_id),
                     i              |-> 1,
                     updated_count  |-> 0,
                     base_rate_conv |-> Get(db.settings, "base_rate_conventional", 650000),
                     base_rate_fha  |-> Get(db.settings, "base_rate_fha", 625000)]
    /\ pc' = "loop"
    /\ UNCHANGED <<op, db, session>>

\* one pass of the loop, for the next fetched row: an exception of a
\* calculator leaves the function, a row without rate or balance is passed
\* over, any other row has its calculated fields written
BulkClient ==
    /\ pc = "loop"
    /\ ret.i <= Len(ret.clients)
    /\ \E rates \in {bulk_client_rates(ret.clients[ret.i].row, ret.base_rate_conv, ret.base_rate_fha)} :
          IF rates.exc # "none"
          THEN /\ ret' = rates
               /\ pc' = "done"
               /\ UNCHANGED db
          ELSE IF rates.val = None
          THEN /\ ret' = [ret EXCEPT !.i = @ + 1]
               /\ UNCHANGED <<pc, db>>
          ELSE /\ db' = [db EXCEPT !.clients = update_client(@, ret.clients[ret.i].id, DictUpdate(rates.val[1], [last_rate_check |-> Some("now")]))]
               /\ ret' = [ret EXCEPT !.i = @ + 1, !.updated_count = @ + 1]
               /\ UNCHANGED pc
    /\ UNCHANGED <<op, args, session>>

\* the loop is over: return updated_count
BulkReturn ==
    /\ pc = "loop"
    /\ ret.i > Len(ret.clients)
    /\ ret' = Ok(ret.updated_count)
    /\ pc' = "done"
    /\ UNCHANGED <<op, args, db, session>>

ClientNext ==
    \/ AddClient
    \/ EditClient
    \/ BulkSelect
    \/ BulkClient
    \/ BulkReturn

ClientSpec == ClientInit /\ [][ClientNext]_vars

-----------------------------------------------------------------------------
(* bulk_update_client_rates over a table of three rows.  A row is one the    *)
(* table's schema admits: ready for the calculators, without a mortgage      *)
(* rate, with a volatility of zero (x* is NaN), with a discount rate of NULL *)
(* (the calculator raises TypeError) or with a tax rate of 1 (it raises      *)
(* ZeroDivisionError).                                                       *)

BatchClients ==
    {FullClient,
     [FullClient EXCEPT !.current_mortgage_rate = Some(PyFloat(0))],
     [FullClient EXCEPT !.rate_volatility = Some(PyFloat(0))],
     [FullClient EXCEPT !.discount_rate = None],
     [FullClient EXCEPT !.tax_rate = Some(Lit(1))]}

BatchPositions == {1, 2, 3}

BulkInit ==
    /\ pc = "call"
    /\ op = "bulk_update_client_rates"
    /\ args = [loan_officer_id |-> None]
    /\ ret = None
    /\ \E batch \in [BatchPositions -> BatchClients] :
          db = [settings |-> FactorySettings,
                clients  |-> [client_id \in BatchPositions |-> create_client(2, batch[client_id])]]
    /\ session = NoSession

BulkNext ==
    \/ BulkSelect
    \/ BulkClient
    \/ BulkReturn

BulkSpec == BulkInit /\ [][BulkNext]_vars

-----------------------------------------------------------------------------
(* pages/other_tools.py, render_enpv_analysis: the net gain of a refinance   *)
(* month by month and its break-even month.  The page is run for two         *)
(* amounts of closing costs with every other input equal; ret.low and        *)
(* ret.high hold the locals of compute_enpv_full of the two runs, which      *)
(* advance month by month together.  Dollars are in thousandths (MS), rates  *)
(* in billionths (PS).                                                       *)

NetGainArgs ==
    [current_balance       : {100000 * MS},
     current_rate          : {65 * (PS \div 1000)},
     new_rate              : {0, 55 * (PS \div 1000)},
     remaining_years_old   : {25},
     new_term_years        : {15, 30},
     closing_costs         : {<<0, 3000 * MS>>, <<3000 * MS, 6000 * MS>>},
     finance_costs_in_loan : BOOLEAN,
     invest_rate           : {50 * (PS \div 1000)},
     tau_rate              : {0, 280 * (PS \div 1000)},
     include_tax           : BOOLEAN]

NetGainInit ==
    /\ pc = "call"
    /\ ret = None
    /\ Draw("render_enpv_analysis", NetGainArgs)

\* compute_enpv_full up to its loop, for one amount of closing costs
enpv_begin(a, closing_costs) ==
    CHOOSE locals \in
        {[pmt_old  |-> payment(a.current_balance, MulDiv(a.current_rate, 1, 12), a.remaining_years_old * 12),
          pmt_new  |-> payment(principal, MulDiv(a.new_rate, 1, 12), a.new_term_years * 12),
          bal_old  |-> a.current_balance,
          bal_new  |-> principal,
          cum_sav  |-> 0,
          inv_bal  |-> 0,
          opt1_sav |-> 0,
          opt2_sav |-> 0,
          t        |-> 0,
          history  |-> <<>>]
         : principal \in {IF a.finance_costs_in_loan
                          THEN a.current_balance + closing_costs
                          ELSE a.current_balance}} : TRUE

\* p_old_t and p_new_t: the payment of month t, after tax if include_tax, and
\* nothing once the loan is over
enpv_paid(t, n, bal, r, pmt, a) ==
    IF t <= n /\ bal > 0
    THEN IF a.include_tax THEN pmt - MulDiv(MulDiv(r, bal, PS), a.tau_rate, PS) ELSE pmt
    ELSE 0

\* x * (1.0 + r_inv)
enpv_grow(x, a) == MulDiv(x, PS + MulDiv(a.invest_rate, 1, 12), PS)

\* the locals after the savings of month t are booked
enpv_advantage(a, s, t, bal_old, bal_new, pmt_sav_t) ==
    CHOOSE locals \in
        {[s EXCEPT !.t = t, !.bal_old = bal_old, !.bal_new = bal_new,
                   !.cum_sav = @ + pmt_sav_t,
                   !.inv_bal = inv_bal, !.opt1_sav = opt1_sav, !.opt2_sav = opt2_sav,
                   !.history = Append(@, [month     |-> t,
                                          total_adv |-> IF t <= a.remaining_years_old * 12
                                                        THEN inv_bal + (bal_old - bal_new)
                                                        ELSE (opt2_sav - bal_new) - opt1_sav])]
         : inv_bal \in {IF t <= a.remaining_years_old * 12 THEN enpv_grow(s.inv_bal, a) + pmt_sav_t ELSE s.inv_bal},
           opt1_sav \in {IF t < a.remaining_years_old * 12 THEN s.opt1_sav
                         ELSE IF t = a.remaining_years_old * 12 THEN 0
                         ELSE enpv_grow(s.opt1_sav, a) + s.pmt_old},
           opt2_sav \in {IF t < a.remaining_years_old * 12 THEN s.opt2_sav
                         ELSE IF t = a.remaining_years_old * 12 THEN enpv_grow(s.inv_bal, a) + pmt_sav_t
                         ELSE enpv_grow(s.opt2_sav, a)}} : TRUE

\* one pass of 'for t in range(1, horizon + 1)' of compute_enpv_full
enpv_month(a, s) ==
    CHOOSE locals \in
        {enpv_advantage(a, s, s.t + 1, bal_old, bal_new, p_old_t - p_new_t)
         : bal_old \in {enpv_balance(s.t + 1, a.remaining_years_old * 12, s.bal_old, MulDiv(a.current_rate, 1, 12), s.pmt_old)},
           bal_new \in {enpv_balance(s.t + 1, a.new_term_years * 12, s.bal_new, MulDiv(a.new_rate, 1, 12), s.pmt_new)},
           p_old_t \in {enpv_paid(s.t + 1, a.remaining_years_old * 12, s.bal_old, MulDiv(a.current_rate, 1, 12), s.pmt_old, a)},
           p_new_t \in {enpv_paid(s.t + 1, a.new_term_years * 12, s.bal_new, MulDiv(a.new_rate, 1, 12), s.pmt_new, a)}} : TRUE

\* the break-even month the page shows: the first month of the history whose
\* total_adv is not negative, None for "Never"
breakeven_month(history) ==
    IF \E i \in DOMAIN history : history[i].total_adv >= 0
    THEN Some(history[CHOOSE i \in DOMAIN history : history[i].total_adv >= 0 /\ \A j \in 1..(i - 1) : history[j].total_adv < 0].month)
    ELSE None

enpv_horizon(a) == IF a.remaining_years_old >= a.new_term_years THEN a.remaining_years_old * 12 ELSE a.new_term_years * 12

NetGainBegin ==
    /\ pc = "call"
    /\ op = "render_enpv_analysis"
    /\ ret' = [low |-> enpv_begin(args, args.closing_costs[1]), high |-> enpv_begin(args, args.closing_costs[2])]
    /\ pc' = "loop"
    /\ UNCHANGED <<op, args, db, session>>

NetGainMonth ==
    /\ pc = "loop"
    /\ op = "render_enpv_analysis"
    /\ ret.low.t < enpv_horizon(args)
    /\ ret' = [low |-> enpv_month(args, ret.low), high |-> enpv_month(args, ret.high)]
    /\ UNCHANGED <<pc, op, args, db, session>>

\* the histories are complete: the break-even months are found
NetGainBreakEven ==
    /\ pc = "loop"
    /\ op = "render_enpv_analysis"
    /\ ret.low.t = enpv_horizon(args)
    /\ ret' = [low  |-> [history |-> ret.low.history, breakeven_month |-> breakeven_month(ret.low.history)],
               high |-> [history |-> ret.high.history, breakeven_month |-> breakeven_month(ret.high.history)]]
    /\ pc' = "done"
    /\ UNCHANGED <<op, args, db, session>>

NetGainNext ==
    \/ NetGainBegin
    \/ NetGainMonth
    \/ NetGainBreakEven

NetGainSpec == NetGainInit /\ [][NetGainNext]_vars

-----------------------------------------------------------------------------
(* pages/other_other_tools.py, render_rent_vs_buy: the loan and the PMI of   *)
(* the buying scenario over 30 years, month by month.  ret holds the locals  *)
(* of the simulation: the year and the months done in it, the loan balance,  *)
(* the home value at the end of the year, the reference price of the LTV     *)
(* (original_home_price), the monthly payment and the PMI of the month just  *)
(* simulated.                                                                *)

RentBuyArgs ==
    [rb_home_price        : {100000 * MS},
     rb_down_payment_pct  : {100 * (PS \div 1000), 200 * (PS \div 1000), 250 * (PS \div 1000)},
     rb_mortgage_rate     : {70 * (PS \div 1000)},
     rb_home_appreciation : {-50 * (PS \div 1000), 0, 30 * (PS \div 1000)},
     rb_pmi_rate          : {5 * (PS \div 1000)},
     rb_years_before_move : {7, 30}]

RentBuyInit ==
    /\ pc = "call"
    /\ ret = None
    /\ Draw("render_rent_vs_buy", RentBuyArgs)

\* the simulation has 30 years
years == 30

rb_loan_amount == args.rb_home_price - MulDiv(args.rb_home_price, args.rb_down_payment_pct, PS)

rb_monthly_rate == MulDiv(args.rb_mortgage_rate, 1, 12)

\* L * (r * (1 + r)**360) / ((1 + r)**360 - 1), which is L * r / (1 - (1 + r)**(-360))
rb_monthly_mortgage ==
    IF rb_loan_amount > 0 /\ rb_monthly_rate > 0
    THEN payment(rb_loan_amount, rb_monthly_rate, 360)
    ELSE 0

\* current_ltv > 0.78
ltv_above_78(current_loan_balance, original_home_price) ==
    MulDiv(current_loan_balance, PS, original_home_price) > 780 * (PS \div 1000)

\* the derived values, the initial values and the home value of the first year
RentBuyBegin ==
    /\ pc = "call"
    /\ op = "render_rent_vs_buy"
    /\ ret' = [year                 |-> 0,
               month                |-> 0,
               current_loan_balance |-> rb_loan_amount,
               original_home_price  |-> args.rb_home_price,
               home_value           |-> MulDiv(args.rb_home_price, PS + args.rb_home_appreciation, PS),
               monthly_mortgage     |-> rb_monthly_mortgage,
               months_done          |-> 0,
               pmi_charged          |-> FALSE,
               monthly_pmi          |-> 0,
               ltv_before           |-> 0]
    /\ pc' = "loop"
    /\ UNCHANGED <<op, args, db, session>>

\* one pass of 'for month in range(12)'
RentBuyMonth ==
    /\ pc = "loop"
    /\ op = "render_rent_vs_buy"
    /\ ret.year < years
    /\ ret.month < 12
    /\ ret' = IF ret.current_loan_balance > 0
              THEN CHOOSE next \in
                       {[ret EXCEPT !.month = @ + 1,
                                    !.months_done = @ + 1,
                                    !.pmi_charged = ltv_above_78(ret.current_loan_balance, ret.original_home_price),
                                    !.monthly_pmi = IF ltv_above_78(ret.current_loan_balance, ret.original_home_price)
                                                    THEN MulDiv(MulDiv(ret.current_loan_balance, args.rb_pmi_rate, PS), 1, 12)
                                                    ELSE 0,
                                    !.ltv_before = MulDiv(ret.current_loan_balance, PS, ret.original_home_price),
                                    !.current_loan_balance = @ - (IF principal_payment < @ THEN principal_payment ELSE @)]
                        : principal_payment \in {ret.monthly_mortgage - MulDiv(ret.current_loan_balance, rb_monthly_rate, PS)}} : TRUE
              ELSE [ret EXCEPT !.month = @ + 1, !.months_done = @ + 1, !.pmi_charged = FALSE, !.monthly_pmi = 0,
                               !.ltv_before = MulDiv(ret.current_loan_balance, PS, ret.original_home_price)]
    /\ UNCHANGED <<pc, op, args, db, session>>

\* the rest of a pass of 'for year in range(years)' as far as the loan goes:
\* on a move the end-of-year home value becomes the reference price of the
\* LTV; then the home value of the next year
RentBuyYearEnd ==
    /\ pc = "loop"
    /\ op = "render_rent_vs_buy"
    /\ ret.year < years
    /\ ret.month = 12
    /\ ret' = [ret EXCEPT !.year = @ + 1,
                          !.month = 0,
                          !.original_home_price = IF args.rb_years_before_move > 0
                                                     /\ (ret.year + 1) % args.rb_years_before_move = 0
                                                     /\ ret.year < years - 1
                                                  THEN ret.home_value
                                                  ELSE @,
                          !.home_value = MulDiv(@, PS + args.rb_home_appreciation, PS)]
    /\ UNCHANGED <<pc, op, args, db, session>>

\* the simulation is over
RentBuyEnd ==
    /\ pc = "loop"
    /\ op = "render_rent_vs_buy"
    /\ ret.year = years
    /\ pc' = "done"
    /\ UNCHANGED <<op, args, ret, db, session>>

RentBuyNext ==
    \/ RentBuyBegin
    \/ RentBuyMonth
    \/ RentBuyYearEnd
    \/ RentBuyEnd

RentBuySpec == RentBuyInit /\ [][RentBuyNext]_vars

-----------------------------------------------------------------------------
(* Accounts and the browser session: auth.py, app.py (main), database.py     *)
(* (create_user, delete_user, create_client, delete_client), the dashboard's *)
(* buttons and the admin panel's user management.                            *)
(*                                                                           *)
(* db.users and db.clients are the two tables as sets of rows, of a client   *)
(* row only its id and its owner; db.user_seq and db.client_seq are the      *)
(* AUTOINCREMENT counters; db.foreign_keys tells whether the SQLite library  *)
(* enforces foreign keys (get_connection sets no PRAGMA, so the library's    *)
(* compile-time default decides).  session is st.session_state of one        *)
(* browser session.  Every handler ends in st.rerun(), and the routing of    *)
(* main() that follows is part of the action.                                *)

\* bcrypt.hashpw and bcrypt.checkpw: the hash of a password verifies that
\* password and no other (the salt plays no part in the outcome)
hash_password(password) == [algorithm |-> "bcrypt", of |-> password]

verify_password(password, hashed) == hashed = [algorithm |-> "bcrypt", of |-> password]

\* the rows seed_users inserts into an empty users table
SEED_USERS ==
    {[id |-> 1, username |-> "admin", password_hash |-> hash_password("admin123"), role |-> Some("admin"), full_name |-> Some("Administrator"), email |-> None],
     [id |-> 2, username |-> "john_lo", password_hash |-> hash_password("loan123"), role |-> Some("loan_officer"), full_name |-> Some("John Smith"), email |-> None],
     [id |-> 3, username |-> "sarah_lo", password_hash |-> hash_password("loan456"), role |-> Some("loan_officer"), full_name |-> Some("Sarah Johnson"), email |-> None]}

\* the ids the two tables may hand out
UserIds == {1, 2, 3, 4}

OwnedClientIds == {1, 2}

\* what may be typed into the forms
Usernames == {"admin", "john_lo", "sarah_lo", "eve"}

Passwords == {"admin123", "loan123", "loan456"}

NewPasswords == {"secret1", "short"}

FullNames == {"Eve Adams", "admin"}

\* the users table after create_user, and what create_user returns: None on
\* the IntegrityError of a username already taken
create_user(d, username, password_hash, role, full_name, email) ==
    IF \E user \in d.users : user.username = username
    THEN [db |-> d, user_id |-> None]
    ELSE [db |-> [d EXCEPT !.users = @ \cup {[id |-> d.user_seq + 1, username |-> username, password_hash |-> password_hash,
                                               role |-> role, full_name |-> full_name, email |-> email]},
                           !.user_seq = @ + 1],
          user_id |-> Some(d.user_seq + 1)]

\* register_user(username, password, role='loan_officer', full_name=None, email=None)
register_user(d, username, password, role, full_name, email) ==
    create_user(d, username, hash_password(password), role, full_name, email)

\* login_user: the user's row, or None
login_user(d, username, password) ==
    IF \E user \in d.users : user.username = username /\ verify_password(password, user.password_hash)
    THEN Some(CHOOSE user \in d.users : user.username = username)
    ELSE None

\* the routing of main() after a rerun: a client page without its client id
\* and the admin page without the admin role fall back to the dashboard
Route(s) ==
    IF ~s.authenticated THEN s
    ELSE IF \/ s.page = "view_client" /\ s.selected_client_id = None
            \/ s.page = "edit_client" /\ s.edit_client_id = None
            \/ s.page = "delete_client" /\ s.delete_client_id = None
            \/ s.page = "admin" /\ s.role # Some("admin")
    THEN [s EXCEPT !.page = "dashboard"]
    ELSE s

AccountInit ==
    /\ pc = "call"
    /\ op = "main"
    /\ args = None
    /\ ret = None
    /\ \E foreign_keys \in BOOLEAN :
          db = [users |-> SEED_USERS, user_seq |-> 3, clients |-> {}, client_seq |-> 0, foreign_keys |-> foreign_keys]
    /\ session = [authenticated |-> FALSE, user_id |-> None, role |-> None, page |-> "dashboard",
                  selected_client_id |-> None, edit_client_id |-> None, delete_client_id |-> None]

\* registration_form, submitted: register_user(username, password, full_name,
\* email) hands the full name over as the role and the email as the full name
RegistrationForm ==
    /\ ~session.authenticated
    /\ db.user_seq + 1 \in UserIds
    /\ \E username \in Usernames \cup {""}, full_name \in FullNames, password \in NewPasswords, password_confirm \in NewPasswords :
          IF username = "" \/ password # password_confirm \/ password = "short"
          THEN UNCHANGED db
          ELSE db' = register_user(db, username, password, Some(full_name), Some(""), None).db
    /\ UNCHANGED <<pc, op, args, ret, session>>

\* login_form, submitted
LoginForm ==
    /\ ~session.authenticated
    /\ \E username \in Usernames, password \in Passwords \cup NewPasswords :
          \E user \in {login_user(db, username, password)} :
              IF user = None
              THEN UNCHANGED session
              ELSE session' = Route([session EXCEPT !.authenticated = TRUE, !.user_id = Some(user[1].id), !.role = user[1].role])
    /\ UNCHANGED <<pc, op, args, ret, db>>

\* logout_button: clear_user_session
Logout ==
    /\ session.authenticated
    /\ session' = [session EXCEPT !.authenticated = FALSE, !.user_id = None, !.role = None]
    /\ UNCHANGED <<pc, op, args, ret, db>>

\* the buttons of the sidebar and the Back and Cancel buttons of the pages
Navigate ==
    /\ session.authenticated
    /\ \E page \in {"dashboard", "add_client", "admin"} :
          /\ page = "admin" => session.role = Some("admin")
          /\ session' = Route([session EXCEPT !.page = page])
    /\ UNCHANGED <<pc, op, args, ret, db>>

\* render_add_client, submitted: create_client(user_id, client_data)
CreateOwnedClient ==
    /\ session.authenticated
    /\ session.page = "add_client"
    /\ db.client_seq + 1 \in OwnedClientIds
    /\ db' = [db EXCEPT !.clients = @ \cup {[id |-> db.client_seq + 1, loan_officer_id |-> session.user_id[1]]},
                        !.client_seq = @ + 1]
    /\ session' = Route([session EXCEPT !.page = "dashboard"])
    /\ UNCHANGED <<pc, op, args, ret>>

\* render_dashboard: a client of get_clients_by_user(user_id) is selected and
\* View Details, Edit Client or Delete is pressed
SelectClient ==
    /\ session.authenticated
    /\ session.page = "dashboard"
    /\ \E client \in db.clients :
          /\ Some(client.loan_officer_id) = session.user_id
          /\ \/ session' = Route([session EXCEPT !.selected_client_id = Some(client.id), !.page = "view_client"])
             \/ session' = Route([session EXCEPT !.edit_client_id = Some(client.id), !.page = "edit_client"])
             \/ session' = Route([session EXCEPT !.delete_client_id = Some(client.id), !.page = "delete_client"])
    /\ UNCHANGED <<pc, op, args, ret, db>>

\* render_delete_client, Delete pressed: delete_client(client_id)
DeleteClient ==
    /\ session.authenticated
    /\ session.page = "delete_client"
    /\ \E client \in db.clients :
          /\ Some(client.id) = session.delete_client_id
          /\ db' = [db EXCEPT !.clients = @ \ {client}]
    /\ session' = Route([session EXCEPT !.page = "dashboard"])
    /\ UNCHANGED <<pc, op, args, ret>>

\* the admin panel's Delete button of a user who is no admin: delete_user;
\* where foreign keys are enforced the DELETE of a user with clients fails
DeleteUser ==
    /\ session.authenticated
    /\ session.page = "admin"
    /\ \E user \in db.users :
          /\ user.role # Some("admin")
          /\ IF db.foreign_keys /\ \E client \in db.clients : client.loan_officer_id = user.id
             THEN UNCHANGED db
             ELSE db' = [db EXCEPT !.users = @ \ {user}]
    /\ UNCHANGED <<pc, op, args, ret, session>>

\* the admin panel's Add User form, submitted
AddUserForm ==
    /\ session.authenticated
    /\ session.page = "admin"
    /\ db.user_seq + 1 \in UserIds
    /\ \E new_username \in Usernames, new_role \in {"loan_officer", "admin"}, new_password \in NewPasswords :
          IF new_password = "short"
          THEN UNCHANGED db
          ELSE db' = create_user(db, new_username, hash_password(new_password), Some(new_role), Some(""), Some("")).db
    /\ UNCHANGED <<pc, op, args, ret, session>>

\* render_client_detail, Edit Client pressed: the page edits the client it shows
EditFromDetail ==
    /\ session.authenticated
    /\ session.page = "view_client"
    /\ \E client \in db.clients : Some(client.id) = session.selected_client_id
    /\ session' = Route([session EXCEPT !.edit_client_id = session.selected_client_id, !.page = "edit_client"])
    /\ UNCHANGED <<pc, op, args, ret, db>>

AccountNext ==
    \/ RegistrationForm
    \/ LoginForm
    \/ Logout
    \/ Navigate
    \/ CreateOwnedClient
    \/ SelectClient
    \/ EditFromDetail
    \/ DeleteClient
    \/ DeleteUser
    \/ AddUserForm

AccountSpec == AccountInit /\ [][AccountNext]_vars

-----------------------------------------------------------------------------
(* Properties *)

Done(name) == pc = "done" /\ op = name

BothRatesPresent == args.trigger_rate # None /\ args.available_rate # None

\* C1: when trigger_rate and available_rate are both present,
\* is_ready_to_refinance returns difference = trigger_rate - available_rate
\* and is_ready is true exactly when that difference is > 0; a difference of
\* exactly 0 is not ready.
C1_ReadyIffDifferencePositive ==
    (Done("is_ready_to_refinance") /\ BothRatesPresent) =>
        /\ ret.exc = "none"
        /\ ret.val.difference = Some(args.trigger_rate[1] - args.available_rate[1])
        /\ ret.val.is_ready = (ret.val.difference[1] > 0)
        /\ (args.trigger_rate = args.available_rate => ~ret.val.is_ready)

\* C1 witness: equal, present rates were checked and found not ready
C1_ZeroDifferenceNotReady ==
    /\ Done("is_ready_to_refinance")
    /\ args.trigger_rate = Some(5000)
    /\ args.available_rate = Some(5000)
    /\ ret.val.difference = Some(0)
    /\ ~ret.val.is_ready

\* the messages is_ready_to_refinance returns when difference <= 0
NotReadyMessages ==
    {is_ready_to_refinance(Some(p[1]), Some(p[2])).val.message :
        p \in {q \in Rates \X Rates : q[1] - q[2] <= 0}}

\* C2: when trigger_rate or available_rate is None, is_ready_to_refinance
\* returns without raising, with is_ready false, difference and
\* difference_bps None, and the message 'Missing rate data', which is none of
\* the messages returned when difference <= 0.
C2_MissingIsNotNotReady ==
    (Done("is_ready_to_refinance") /\ ~BothRatesPresent) =>
        /\ ret.exc = "none"
        /\ ~ret.val.is_ready
        /\ ret.val.difference = None
        /\ ret.val.difference_bps = None
        /\ ret.val.message = "Missing rate data"
        /\ ret.val.message \notin NotReadyMessages

\* C2 witness: a trigger rate with no available rate was checked
C2_MissingAvailableRate ==
    /\ Done("is_ready_to_refinance")
    /\ args.trigger_rate = Some(5000)
    /\ args.available_rate = None
    /\ ret.exc = "none"
    /\ ret.val.message = "Missing rate data"

FhaSpellings == {<<"F", "H", "A">>, <<"f", "h", "a">>, <<"F", "h", "a">>}

Conventional == <<"C", "o", "n", "v", "e", "n", "t", "i", "o", "n", "a", "l">>

\* C3: calculate_available_rate with loan_type FHA in any letter case returns
\* total_llpa = 0 and final_rate = base_rate + state_adjustment whatever the
\* credit score, LTV, loan amount, property type and occupancy; with loan_type
\* Conventional it returns final_rate = base_rate + total_llpa +
\* state_adjustment; in both cases final_rate_decimal = final_rate / 100.
C3_FhaIgnoresLlpa ==
    Done("calculate_available_rate") =>
        /\ ret.exc = "none"
        /\ args.loan_type \in FhaSpellings =>
              /\ ret.val.total_llpa = 0
              /\ ret.val.final_rate = args.base_rate + args.state_adjustment
        /\ args.loan_type = Conventional =>
              ret.val.final_rate =
                  args.base_rate + ret.val.total_llpa + args.state_adjustment
        /\ 100 * ret.val.final_rate_decimal = ret.val.final_rate

\* C3 witness: a lower-case "fha" loan of a profile whose Conventional LLPA is
\* not zero was priced without LLPA
C3_LowerCaseFhaPriced ==
    /\ Done("calculate_available_rate")
    /\ args.loan_type = <<"f", "h", "a">>
    /\ args.credit_score = 620
    /\ args.ltv = Num(80)
    /\ args.state_adjustment = 12500
    /\ ret.val.total_llpa = 0
    /\ ret.val.final_rate = args.base_rate + 12500

\* C4: for a Conventional loan the total_llpa of calculate_available_rate
\* equals the Total LLPA calculate_total_llpa returns for the same credit
\* score, LTV, loan amount, property type and occupancy (Rate/Term Refinance,
\* fixed rate, no CLTV, no waiver).
C4_ConventionalLlpaIsFullSum ==
    (Done("calculate_available_rate") /\ args.loan_type = Conventional) =>
        /\ ret.exc = "none"
        /\ ret.val.total_llpa =
              calculate_total_llpa(args.credit_score, args.ltv, args.loan_amount,
                                   "Rate/Term Refinance", args.property_type,
                                   args.occupancy, FALSE, None, FALSE,
                                   FALSE).val["Total LLPA"]

Waived == args.is_homeready \/ args.is_first_time_buyer_low_income

\* C5: the Total LLPA calculate_total_llpa returns is the sum of its five
\* category adjustments; when is_homeready or is_first_time_buyer_low_income
\* is set, the five adjustments and the total are all 0 whatever the other
\* inputs, and the result carries the waiver marker and a reason.
C5_TotalIsSumAndWaiverZeroes ==
    Done("calculate_total_llpa") =>
        /\ ret.exc = "none"
        /\ ret.val["Total LLPA"] =
              ret.val["Credit Score / LTV"] + ret.val["Property Type"]
                  + ret.val["Occupancy"] + ret.val["High Balance"]
                  + ret.val["Subordinate Financing"]
        /\ Waived =>
              /\ \A k \in LlpaCategories : ret.val[k] = 0
              /\ ret.val["Total LLPA"] = 0
              /\ ret.val["LLPA Waiver Applied"] = TRUE
              /\ "waiver_reason" \in DOMAIN ret.val
              /\ ret.val["waiver_reason"] \in {"HomeReady", "First-Time Buyer Low Income"}
        /\ ~Waived => ret.val["LLPA Waiver Applied"] = FALSE

\* C5 witness: a first-time-buyer waiver on a profile that would otherwise
\* carry an adjustment in every category
C5_FirstTimeBuyerWaived ==
    /\ Done("calculate_total_llpa")
    /\ ~args.is_homeready
    /\ args.is_first_time_buyer_low_income
    /\ args.credit_score = 620
    /\ args.ltv = Num(80)
    /\ args.loan_amount > 806500
    /\ args.property_type = "Condo"
    /\ args.occupancy = "Second Home"
    /\ args.cltv = Some(Num(100))
    /\ ret.val["Total LLPA"] = 0
    /\ ret.val["waiver_reason"] = "First-Time Buyer Low Income"

\* the bucket each edge opens, and the bucket just below it
EdgeBucket ==
       780 :> ">=780" @@ 760 :> "760-779" @@ 740 :> "740-759" @@ 720 :> "720-739"
    @@ 700 :> "700-719" @@ 680 :> "680-699" @@ 660 :> "660-679" @@ 640 :> "640-659"

BelowEdgeBucket ==
       780 :> "760-779" @@ 760 :> "740-759" @@ 740 :> "720-739" @@ 720 :> "700-719"
    @@ 700 :> "680-699" @@ 680 :> "660-679" @@ 660 :> "640-659" @@ 640 :> "<=639"

\* C6: both copies of get_credit_score_bucket (llpa.py, rate_calculator.py)
\* put a credit score that is exactly 780, 760, 740, 720, 700, 680, 660 or 640
\* in the bucket that edge opens, and the score one point below it in the next
\* lower bucket.
C6_ScoreEdgeInHigherBucket ==
    (Done("get_credit_score_bucket") \/ Done("rc_get_credit_score_bucket")) =>
        \A e \in DOMAIN EdgeBucket :
            /\ args.credit_score = e => ret.val = EdgeBucket[e]
            /\ args.credit_score = e - 1 => ret.val = BelowEdgeBucket[e]

\* C6 witness: the llpa.py copy bucketed a score of exactly 780
C6_Score780Bucketed ==
    /\ Done("get_credit_score_bucket")
    /\ args.credit_score = 780
    /\ ret.val = ">=780"

\* the nine LTV buckets with the upper bound each closes at (none for ">95")
LtvBucketLabels ==
    <<"<=30", "30.01-60", "60.01-70", "70.01-75", "75.01-80", "80.01-85",
      "85.01-90", "90.01-95", ">95">>

LtvBucketUpper == <<30, 60, 70, 75, 80, 85, 90, 95>>

InLtvBucket(ltv, i) ==
    /\ i > 1 => ltv > Num(LtvBucketUpper[i - 1])
    /\ i < 9 => ltv <= Num(LtvBucketUpper[i])

\* C7: get_ltv_bucket maps every LTV to exactly one of the nine buckets, with
\* inclusive upper bounds (30, 60, 70, 75, 80, 85, 90 and 95 fall in the bucket
\* they close, anything above 95 in ">95"); get_ltv_bucket_cashout maps every
\* LTV to one of the five buckets ending at "75.01-80"; and
\* get_credit_score_ltv_adjustment finds a table entry, never a missing key,
\* for every credit score, LTV and each of the three loan purposes.
C7_LtvBucketingTotalAndExact ==
    /\ Done("get_ltv_bucket") =>
          \A i \in DOMAIN LtvBucketLabels :
              (ret.val = LtvBucketLabels[i]) <=> InLtvBucket(args.ltv, i)
    /\ Done("get_ltv_bucket_cashout") =>
          /\ ret.val \in {LtvBucketLabels[i] : i \in 1..5}
          /\ \A i \in 1..4 :
                (ret.val = LtvBucketLabels[i]) <=> InLtvBucket(args.ltv, i)
    /\ (Done("get_credit_score_ltv_adjustment") /\ args.loan_purpose \in LoanPurposes) =>
          /\ ret.exc = "none"
          /\ ret.val \in Nat

\* C7 witness: a cash-out lookup at an LTV above every bucket edge found the
\* "75.01-80" entry of the bottom credit-score row
C7_CashoutLookupAbove95 ==
    /\ Done("get_credit_score_ltv_adjustment")
    /\ args.loan_purpose = "Cash-Out Refinance"
    /\ args.ltv = Num(105)
    /\ args.credit_score = 300
    /\ ret.exc = "none"
    /\ ret.val = 512500

\* C8: for Cash-Out Refinance with no CLTV supplied, calculate_total_llpa
\* returns the same five category adjustments and the same total for any two
\* LTV values above 75, all other inputs being equal.
C8_CashoutSameAbove75 ==
    (/\ Done("calculate_total_llpa")
     /\ args.loan_purpose = "Cash-Out Refinance"
     /\ args.cltv = None
     /\ args.ltv > Num(75)) =>
        \A ltv2 \in {l \in LtvReps : l > Num(75)} :
            calculate_total_llpa(args.credit_score, ltv2, args.loan_amount,
                                 args.loan_purpose, args.property_type,
                                 args.occupancy, args.is_arm, args.cltv,
                                 args.is_homeready,
                                 args.is_first_time_buyer_low_income) = ret

\* C9: get_high_balance_adjustment returns 0 whenever loan_amount is at most
\* 806,500 (exactly 806,500 included), and for a larger loan the entry of the
\* LTV's bucket in the ARM table when is_arm, in the fixed-rate table otherwise.
C9_HighBalanceOnlyAboveLimit ==
    Done("get_high_balance_adjustment") =>
        /\ args.loan_amount <= 806500 => ret.val = 0
        /\ args.loan_amount > 806500 =>
              \A i \in DOMAIN LtvBucketLabels :
                  InLtvBucket(args.ltv, i) =>
                      ret.val = IF args.is_arm
                                THEN HIGH_BALANCE_ARM[LtvBucketLabels[i]]
                                ELSE HIGH_BALANCE_FIXED[LtvBucketLabels[i]]

\* C9 witness: an ARM of exactly the conforming limit got no adjustment
C9_AtLimitNoAdjustment ==
    /\ Done("get_high_balance_adjustment")
    /\ args.loan_amount = 806500
    /\ args.is_arm
    /\ args.ltv = Num(95) + 1000
    /\ ret.val = 0

\* C10: get_subordinate_financing_adjustment returns 0 whenever CLTV <= LTV
\* (so the adjustment is nonzero only for a CLTV strictly above the LTV), and
\* calculate_total_llpa treats a CLTV that is not supplied as equal to the LTV.
C10_SubordinateOnlyAboveLtv ==
    /\ Done("get_subordinate_financing_adjustment") =>
          /\ args.cltv <= args.ltv => ret.val = 0
          /\ ret.val # 0 => args.cltv > args.ltv
    /\ (Done("calculate_total_llpa") /\ args.cltv = None) =>
          /\ ret.val["Subordinate Financing"] = 0
          /\ ret = calculate_total_llpa(args.credit_score, args.ltv,
                       args.loan_amount, args.loan_purpose, args.property_type,
                       args.occupancy, args.is_arm, Some(args.ltv),
                       args.is_homeready, args.is_first_time_buyer_low_income)

\* C10 witness: a CLTV equal to the LTV got no subordinate-financing adjustment
C10_EqualCltvNoAdjustment ==
    /\ Done("get_subordinate_financing_adjustment")
    /\ args.cltv = args.ltv
    /\ args.ltv = Num(80)
    /\ ret.val = 0


-----------------------------------------------------------------------------
(* The threshold solver *)

\* sigma = 0, tau = 1 or M = 0: a denominator of the closed form is zero
ZeroDenominator(M, sigma, tau) == IsZero(M) \/ IsZero(sigma) \/ tau = Lit(1)

\* M > 0, sigma > 0, 0 <= tau < 1
ValidRegime(M, sigma, tau) == M.v > 0 /\ sigma.v > 0 /\ tau.v >= 0 /\ tau.v < FS

\* C11: on a numerical-domain error (sigma = 0, tau = 1, M = 0) none of
\* calculate_optimal_threshold, calculate_square_root_approximation,
\* calculate_npv_threshold and calculate_trigger_rate raises: the exact
\* threshold comes back as NaN, and calculate_trigger_rate reports
\* optimal_threshold_bps and trigger_rate as None.
C11_DomainErrorsReturnSentinel ==
    /\ Done("calculate_optimal_threshold") /\ ZeroDenominator(args.M, args.sigma, args.tau)
          => ret.exc = "none" /\ np_isnan(ret.val[1])
    /\ Done("calculate_square_root_approximation") /\ ZeroDenominator(args.M, Lit(1), args.tau)
          => ret.exc = "none"
    /\ Done("calculate_npv_threshold") /\ ZeroDenominator(args.M, Lit(1), args.tau)
          => ret.exc = "none"
    /\ Done("calculate_trigger_rate") /\ ZeroDenominator(args.remaining_balance, args.volatility, args.tax_rate)
          => /\ ret.exc = "none"
             /\ ret.val.optimal_threshold_bps = None
             /\ ret.val.trigger_rate = None

\* C12: in a valid regime (M > 0, sigma > 0, 0 <= tau < 1, rho + lambda > 0,
\* kappa > 0) the exact threshold x* is <= 0 and optimal_threshold_bps,
\* which is -x* * 10000, is >= 0.
C12_ThresholdIsARateDrop ==
    /\ Done("calculate_optimal_threshold") /\ ValidRegime(args.M, args.sigma, args.tau) /\ args.kappa.v > 0
          => ret.exc = "none" /\ ret.val[1].k = "fin" /\ ret.val[1].v <= 0
    /\ Done("calculate_trigger_rate") /\ ValidRegime(args.remaining_balance, args.volatility, args.tax_rate)
          /\ (args.fixed_cost.v > 0 \/ args.points.v > 0)
          => /\ ret.exc = "none"
             /\ ret.val.x_star.k = "fin" /\ ret.val.x_star.v <= 0
             /\ ret.val.optimal_threshold_bps # None
             /\ ret.val.optimal_threshold_bps[1].v >= 0

\* C13: for valid parameters with finite results the NPV break-even
\* threshold is never larger in magnitude than the exact threshold:
\* |x_npv| <= |x*|.
C13_NpvWithinExact ==
    /\ Done("calculate_trigger_rate")
    /\ ValidRegime(args.remaining_balance, args.volatility, args.tax_rate)
    /\ ret.exc = "none"
    /\ ret.val.x_star.k = "fin" /\ ret.val.npv_threshold_bps.k = "fin"
    => Abs(ret.val.npv_threshold_bps.v) <= Abs(fmul(ret.val.x_star, Lit(10000)).v)

\* a balance of 100000 with costs of 2000 plus one point: the NPV rule asks
\* for 82 bps, the exact rule for more
C13_OptionValueGap ==
    /\ Done("calculate_trigger_rate")
    /\ ValidRegime(args.remaining_balance, args.volatility, args.tax_rate)
    /\ args.remaining_balance = Lit(100000) /\ args.fixed_cost = Lit(2000) /\ args.points = PyFloat(100)
    /\ args.tax_rate = PyFloat(2800) /\ args.remaining_years = Lit(25)
    /\ ret.exc = "none"
    /\ ret.val.npv_threshold_bps = NpFloat(82 * FS)
    /\ Abs(ret.val.x_star.v) > 82


-----------------------------------------------------------------------------
(* The pricing grid *)

\* what the settings hold for the call's loan type; a missing key reads '{}'
StoredGrid == Get(args.settings, GridKey(args.loan_type), Some(JsonText(PyDict(<<>>))))

\* the call's loan type has a non-empty grid of rate keys and float points
GridConfigured ==
    /\ StoredGrid # None
    /\ StoredGrid[1] \in {JsonText(g) : g \in WellFormedGrids \cup {FhaGrid}}

\* the rates listed for the call's borrower
Listed == get_available_rates_with_points(args.settings, args.base_rate, args.credit_score, args.ltv, args.loan_amount, args.loan_type, args.property_type, args.occupancy).val

\* C14: get_best_rate_for_closing_cost returns the lowest rate among the
\* grid rates whose total_cost is <= target_cost, with within_budget true;
\* when no rate is within the budget it returns the highest grid rate with
\* within_budget false.
C14_BestRateWithinBudget ==
    Done("get_best_rate_for_closing_cost") /\ GridConfigured =>
        /\ ret.exc = "none"
        /\ ret.val # None
        /\ LET best       == ret.val[1]
               affordable == {i \in DOMAIN Listed : Listed[i].total_cost <= args.target_cost}
               among      == IF affordable # {} THEN affordable ELSE DOMAIN Listed
           IN  /\ best.within_budget = (affordable # {})
               /\ \E i \in among :
                     /\ best.rate = Listed[i].rate
                     /\ best.points = Listed[i].total_points
                     /\ best.cost = Listed[i].total_cost
               /\ affordable # {} => \A j \in affordable : Listed[j].rate >= best.rate
               /\ affordable = {} => \A j \in DOMAIN Listed : Listed[j].rate <= best.rate

\* the budget is met exactly by a rate that is neither the highest nor the
\* lowest of the grid, and a lower rate costs more than the budget
C14_BudgetMetExactly ==
    /\ Done("get_best_rate_for_closing_cost") /\ GridConfigured
    /\ ret.exc = "none" /\ ret.val # None
    /\ ret.val[1].within_budget
    /\ ret.val[1].cost = args.target_cost
    /\ \E i \in DOMAIN Listed : Listed[i].rate < ret.val[1].rate /\ Listed[i].total_cost > args.target_cost
    /\ \E i \in DOMAIN Listed : Listed[i].rate > ret.val[1].rate

\* C15: get_par_rate_for_borrower returns as borrower_par_rate a grid rate
\* whose |total_points| is minimal: no other grid rate has a strictly
\* smaller |total_points|.
C15_ParRateHasLeastPoints ==
    Done("get_par_rate_for_borrower") /\ GridConfigured =>
        /\ ret.exc = "none"
        /\ ret.val # None
        /\ \E i \in DOMAIN Listed :
              /\ ret.val[1].borrower_par_rate = Listed[i].rate
              /\ ret.val[1].borrower_par_points = Listed[i].total_points
        /\ \A j \in DOMAIN Listed :
              Abs(Listed[j].total_points) >= Abs(ret.val[1].borrower_par_points)

\* the borrower's LLPA moves the par rate above the grid's par rate
C15_ParRateAboveGridPar ==
    /\ Done("get_par_rate_for_borrower") /\ GridConfigured
    /\ ret.exc = "none" /\ ret.val # None
    /\ ret.val[1].grid_par_rate # None
    /\ ret.val[1].borrower_par_rate > ret.val[1].grid_par_rate[1]
    /\ ret.val[1].llpa_adjustment > 0

\* the borrower's total LLPA: calculate_conventional_llpa's total for a
\* conventional loan, 0 for any other loan type
BorrowerLlpa ==
    IF str_upper(args.loan_type) = str_upper(ConventionalChars)
    THEN calculate_conventional_llpa(args.credit_score, args.ltv, args.loan_amount,
             "Rate/Term Refinance", args.property_type, args.occupancy).val["Total LLPA"]
    ELSE 0

\* C16: for a non-empty grid get_available_rates_with_points returns exactly
\* one entry per grid rate, with total_points = base_points + llpa_points,
\* total_cost = total_points * loan_amount / 100, and llpa_points the
\* borrower's total LLPA for a conventional loan and 0 otherwise.
C16_OneEntryPerGridRate ==
    Done("get_available_rates_with_points") /\ GridConfigured =>
        /\ ret.exc = "none"
        /\ LET items == StoredGrid[1].value.items
           IN  /\ Len(ret.val) = Len(items)
               /\ \A k \in DOMAIN items :
                     Cardinality({i \in DOMAIN ret.val :
                                     /\ ret.val[i].rate = float(items[k][1]).val
                                     /\ ret.val[i].base_points = items[k][2].v}) = 1
        /\ \A i \in DOMAIN ret.val :
              /\ ret.val[i].llpa_points = BorrowerLlpa
              /\ ret.val[i].total_points = ret.val[i].base_points + ret.val[i].llpa_points
              /\ ret.val[i].total_cost = (ret.val[i].total_points \div 100) * args.loan_amount

\* a conventional borrower with a positive LLPA priced on the manual grid
C16_ManualGridWithLlpa ==
    /\ Done("get_available_rates_with_points")
    /\ StoredGrid = Some(JsonText(ManualGrid))
    /\ ret.exc = "none"
    /\ Len(ret.val) = 4
    /\ ret.val[1].llpa_points > 0
    /\ ret.val[1].rate = 712500
    /\ ret.val[4].rate = 600000

\* the stored text is no grid: empty, not JSON, NULL, or JSON of another shape
NoGridStored ==
    \/ StoredGrid = None
    \/ StoredGrid[1] \in EmptyGridTexts \cup MisshapenGridTexts

\* C17: with an empty grid or malformed grid content in the settings,
\* get_pricing_grid yields an empty grid, get_available_rates_with_points
\* returns [], and get_par_rate_for_borrower and
\* get_best_rate_for_closing_cost return None; none of them raises.
C17_NoGridNoResult ==
    /\ Done("get_pricing_grid") /\ NoGridStored => ret.exc = "none" /\ Falsy(ret.val)
    /\ Done("get_available_rates_with_points") /\ NoGridStored => ret = Ok(<<>>)
    /\ Done("get_par_rate_for_borrower") /\ NoGridStored => ret = Ok(None)
    /\ Done("get_best_rate_for_closing_cost") /\ NoGridStored => ret = Ok(None)


-----------------------------------------------------------------------------
(* FHA mortgage insurance *)

\* the annual MIP, in percent, of the claim's table
AnnualMipTable(long_term, within_limit, low_ltv) ==
    IF long_term
    THEN IF within_limit THEN (IF low_ltv THEN Num(50) \div 100 ELSE Num(55) \div 100)
         ELSE (IF low_ltv THEN Num(70) \div 100 ELSE Num(75) \div 100)
    ELSE IF within_limit THEN (IF low_ltv THEN Num(15) \div 100 ELSE Num(40) \div 100)
         ELSE (IF low_ltv THEN Num(40) \div 100 ELSE Num(65) \div 100)

\* C18: get_fha_mip_info returns an upfront MIP of 1.75% of the loan amount
\* and an annual MIP decided by term > 15, loan_amount <= 726,200 and
\* LTV <= 90 (each boundary on the '<=' side); the duration is '11 years'
\* exactly when LTV <= 90; llpa.get_fha_mip returns the same values.
C18_FhaMipTable ==
    Done("get_fha_mip_info") \/ Done("get_fha_mip") =>
        /\ ret.val.upfront_mip_rate = Num(175) \div 100
        \* 1.75% is 7/400
        /\ 400 * ret.val.upfront_mip_amount.num
              = 7 * args.loan_amount * ret.val.upfront_mip_amount.den
        /\ ret.val.annual_mip_rate
              = AnnualMipTable(args.loan_term > 15, args.loan_amount <= 726200, args.ltv <= Num(90))
        /\ (ret.val.mip_duration = "11 years") = (args.ltv <= Num(90))
        /\ ret.val = get_fha_mip(args.ltv, args.loan_amount, args.loan_term)
        /\ ret.val = get_fha_mip_info(args.ltv, args.loan_amount, args.loan_term)

\* every boundary at once: a 15-year loan of 726,200 at an LTV of 90
C18_AllBoundaries ==
    /\ Done("get_fha_mip_info")
    /\ args.loan_term = 15 /\ args.loan_amount = 726200 /\ args.ltv = Num(90)
    /\ ret.val.annual_mip_rate = 15000
    /\ ret.val.mip_duration = "11 years"


-----------------------------------------------------------------------------
(* Mortality weights *)

\* the annual rate the finished calculation was given
AnnualRate == IF op = "render_enpv_analysis" THEN args.enpv_cpr ELSE args.points_move_prob

\* |sum(mortality) - 1| is at most one millionth, which is far above the
\* rounding of the 360 products
WeightsSumToOne ==
    Abs(PySum(ret.mortality) - PS) <= PS \div 1000000

\* C19: for any CPR in (0,1) the mortality weights of the ENPV calculation,
\* with the residual survival folded into the final month, sum to 1.
C19_WeightsConserveProbability ==
    pc = "done" /\ op \in {"render_enpv_analysis", "render_buy_points_analysis"}
        /\ 0 < AnnualRate /\ AnnualRate < PS
        => WeightsSumToOne

\* the residual survival is folded in and the weights do sum to 1
C19_ResidualFolded ==
    /\ Done("render_enpv_analysis")
    /\ args.enpv_cpr = 10 * (PS \div 100)
    /\ ret.survival > PS \div 1000
    /\ ret.mortality[360] > ret.survival
    /\ WeightsSumToOne


-----------------------------------------------------------------------------
(* Amortization *)

\* the balances of the two loans month by month, the principal first
BalancesA ==
    IF op = "compute_enpv_full"
    THEN <<old_principal>> \o [i \in 1..Len(ret.history) |-> ret.history[i].bal_old]
    ELSE <<principal1>> \o [i \in 1..Len(ret.history) |-> ret.history[i].bal1]

BalancesB ==
    IF op = "compute_enpv_full"
    THEN <<new_principal>> \o [i \in 1..Len(ret.history) |-> ret.history[i].bal_new]
    ELSE <<principal2>> \o [i \in 1..Len(ret.history) |-> ret.history[i].bal2]

NonIncreasing(s) == \A i \in 1..(Len(s) - 1) : s[i + 1] <= s[i]

NeverBelowZero(s) == \A i \in 1..Len(s) : s[i] >= 0

\* a zero-rate new loan is paid principal / n_months a month and owes nothing
\* after month n_months
ZeroRatePaidOff ==
    op = "compute_enpv_full" /\ args.new_rate = 0 =>
        /\ ret.pmt_new = MulDiv(new_principal, 1, n_new)
        /\ ret.history[n_new].bal_new = 0

\* C20: the outstanding balance never rises from one month to the next and
\* is never below 0; a zero-rate loan is paid principal/n_months a month and
\* its balance is exactly 0 after month n_months.
C20_BalanceFallsToZero ==
    pc = "done" /\ op \in {"compute_enpv_full", "render_buy_points_analysis"} =>
        /\ NonIncreasing(BalancesA) /\ NonIncreasing(BalancesB)
        /\ NeverBelowZero(BalancesA) /\ NeverBelowZero(BalancesB)
        /\ ZeroRatePaidOff

\* a clamped amortization that ends at exactly 0
C20_ClampedAtZero ==
    /\ Done("compute_enpv_full")
    /\ args.new_rate > 0
    /\ NonIncreasing(BalancesA) /\ NonIncreasing(BalancesB)
    /\ NeverBelowZero(BalancesA) /\ NeverBelowZero(BalancesB)
    /\ ret.history[n_old].bal_old = 0


\* C21: a recalculation of a record that lacks an economic parameter gives the
\* rates computed with the admin-configured default in its place, on the
\* add/edit path and on the bulk path alike
C21_AbsentUsesAdminDefault ==
    /\ Done("calculate_client_rates") =>
           ret = calculate_client_rates(WithDefaults(FullClient, args.absent, get_defaults(args.settings)), get_defaults(args.settings))
    /\ Done("bulk_update_client_rates") =>
           /\ ret.exc = "none"
           /\ ret.val = Some(calculate_client_rates(WithDefaults(FullClient, args.absent, get_defaults(args.settings)), get_defaults(args.settings)).val)

\* C21, the add/edit path alone
C21_AddEditUsesAdminDefault ==
    Done("calculate_client_rates") =>
        ret = calculate_client_rates(WithDefaults(FullClient, args.absent, get_defaults(args.settings)), get_defaults(args.settings))

\* C21: the bulk path meets a NULL parameter under changed admin defaults
C21_BulkAbsent ==
    /\ Done("bulk_update_client_rates")
    /\ args.absent = {"discount_rate"}
    /\ args.settings = ChangedSettings
    /\ ret.exc = "TypeError"


\* the calculated fields a row stores and the input of the forms it stores
StoredRates(row) == [field \in CalculatedFields |-> row[field]]

StoredForm(row) == [key \in DOMAIN FullClient |-> row[key]]

C22_NoTriggerStored ==
    /\ db # NoDatabase
    /\ \E client_id \in DOMAIN db.clients :
           /\ db.clients[client_id]["trigger_rate"] = None
           /\ db.clients[client_id]["difference"] = None

\* C27: when no bulk recalculation is running, the calculated fields every
\* client stores are those computed from the parameters it stores
C27_StoredRatesFromStoredParameters ==
    (db # NoDatabase /\ pc = "done" /\ ret.exc = "none") =>
        \A client_id \in DOMAIN db.clients :
            StoredRates(db.clients[client_id]) = submitted_rates(StoredForm(db.clients[client_id]), db.settings).val

\* C27: a bulk recalculation has returned and a client it updated stores
\* rates of other parameters than its own
C27_StaleRatesStored ==
    /\ db # NoDatabase
    /\ pc = "done"
    /\ ret = Ok(1)
    /\ \E client_id \in DOMAIN db.clients :
           /\ db.clients[client_id]["last_rate_check"] = Some("now")
           /\ StoredRates(db.clients[client_id]) # submitted_rates(StoredForm(db.clients[client_id]), db.settings).val


\* what calculate_trigger_rate hands to the solvers for the drawn arguments
CurrentRateOf(a) == IF flt(Lit(1), a.current_rate) THEN fdiv(a.current_rate, Lit(100)) ELSE a.current_rate

LambdaOf(a) == calculate_lambda(a.prob_moving, CurrentRateOf(a), a.remaining_years, a.inflation_rate)

KappaOf(a) == calculate_kappa(a.remaining_balance, a.points, a.fixed_cost, a.tax_rate)

ExactOf(a) == calculate_optimal_threshold(a.remaining_balance, a.discount_rate, LambdaOf(a), a.volatility, KappaOf(a), a.tax_rate)

SqrtOf(a) == calculate_square_root_approximation(a.remaining_balance, a.discount_rate, LambdaOf(a), a.volatility, KappaOf(a), a.tax_rate)

NpvOf(a) == calculate_npv_threshold(a.remaining_balance, a.discount_rate, LambdaOf(a), KappaOf(a), a.tax_rate)

\* the exact solver returns NaN for x*
ExactFails(a) == ExactOf(a).exc = "none" /\ np_isnan(ExactOf(a).val[1])

\* the bundle of a failed exact solver: no threshold and no trigger rate, the
\* two approximations and the intermediate values as computed
NanBundle(a, result) ==
    /\ result.exc = "none"
    /\ result.val.optimal_threshold_bps = None
    /\ result.val.trigger_rate = None
    /\ result.val.trigger_rate_pct = None
    /\ np_isnan(result.val.x_star)
    /\ SqrtOf(a).exc = "none"
    /\ result.val.sqrt_approx_bps = fmul(fneg(SqrtOf(a).val), Lit(10000))
    /\ NpvOf(a).exc = "none"
    /\ result.val.npv_threshold_bps = fmul(fneg(NpvOf(a).val), Lit(10000))
    /\ result.val.lambda = LambdaOf(a)
    /\ result.val.kappa = KappaOf(a)
    /\ result.val.psi = ExactOf(a).val[2]
    /\ result.val.phi = ExactOf(a).val[3]
    /\ result.val.C_M = ExactOf(a).val[4]
    /\ result.val.current_rate = CurrentRateOf(a)

\* C23: when the exact solver returns NaN for x*, calculate_trigger_rate
\* returns the whole bundle with optimal_threshold_bps and trigger_rate None
\* and with the approximations and intermediate values of the same inputs
C23_NanLeavesBundleComplete ==
    (Done("calculate_trigger_rate") /\ ExactFails(args)) => NanBundle(args, ret)

\* C23 for a mortgage with a balance
C23_NanLeavesBundleCompleteWithBalance ==
    (Done("calculate_trigger_rate") /\ ExactFails(args) /\ ~IsZero(args.remaining_balance)) => NanBundle(args, ret)

\* C23: x* is NaN for a mortgage with a balance and the bundle holds a finite
\* square-root approximation
C23_NanWithApproximation ==
    /\ Done("calculate_trigger_rate")
    /\ ExactFails(args)
    /\ ~IsZero(args.remaining_balance)
    /\ ret.exc = "none"
    /\ ret.val.trigger_rate = None
    /\ ret.val.sqrt_approx_bps.k = "fin"

\* C23: x* is NaN for a paid-off mortgage without refinancing cost, at a
\* volatility of 0.0109 and 25 remaining years, and calculate_trigger_rate raises
C23_NanThenRaise ==
    /\ Done("calculate_trigger_rate")
    /\ ExactFails(args)
    /\ args.current_rate = PyFloat(650)
    /\ args.remaining_balance = Lit(0)
    /\ args.remaining_years = Lit(25)
    /\ args.volatility = PyFloat(109)
    /\ args.tax_rate = PyFloat(2800)
    /\ args.fixed_cost = Lit(0)
    /\ ret.exc = "ZeroDivisionError"


\* a row the bulk loop does not pass over: it has a mortgage rate and a balance
Eligible(row) == TruthyFloat(row["current_mortgage_rate"]) /\ TruthyFloat(row["current_mortgage_balance"])

\* the rows of the table for which a calculator raises
Raising(row) == Eligible(row) /\ bulk_client_rates(row, 650000, 625000).exc # "none"

\* a row of the batch: one the SELECT of the call returns
InBatch(row) == args.loan_officer_id = None \/ row["loan_officer_id"] = args.loan_officer_id

\* bulk_update_client_rates has returned the number of eligible rows of its
\* batch and has updated each of them
BatchCompleted ==
    /\ ret.exc = "none"
    /\ ret.val = Cardinality({client_id \in DOMAIN db.clients : InBatch(db.clients[client_id]) /\ Eligible(db.clients[client_id])})
    /\ \A client_id \in DOMAIN db.clients :
           (InBatch(db.clients[client_id]) /\ Eligible(db.clients[client_id])) => db.clients[client_id]["last_rate_check"] = Some("now")

C24_NanDoesNotAbortBatch ==
    (db # NoDatabase /\ Done("bulk_update_client_rates") /\ \A client_id \in DOMAIN db.clients : ~Raising(db.clients[client_id])) => BatchCompleted

\* C24: the batch went on after a client without trigger rate
C24_UpdatedAfterNan ==
    /\ db # NoDatabase
    /\ Done("bulk_update_client_rates")
    /\ ret = Ok(3)
    /\ db.clients[1]["last_rate_check"] = Some("now")
    /\ db.clients[1]["rate_volatility"] = Some(PyFloat(0))
    /\ db.clients[1]["trigger_rate"] = None
    /\ db.clients[2]["trigger_rate"] # None
    /\ db.clients[3]["trigger_rate"] # None

LastGain(run) == run.history[Len(run.history)].total_adv

\* the break-even month of the larger closing costs is not earlier
NotEarlier(low, high) == high = None \/ (low # None /\ high[1] >= low[1])

\* C25: with larger closing costs the net gain is strictly smaller at every
\* month and the break-even month is not earlier, financed or not
C25_LargerCostsSmallerGain ==
    /\ (op = "render_enpv_analysis" /\ pc = "loop" /\ ret.low.t >= 1) =>
           LastGain(ret.high) < LastGain(ret.low)
    /\ Done("render_enpv_analysis") =>
           NotEarlier(ret.low.breakeven_month, ret.high.breakeven_month)

\* C25 for closing costs financed into the new loan
C25_FinancedCostsSmallerGain ==
    /\ (op = "render_enpv_analysis" /\ pc = "loop" /\ ret.low.t >= 1 /\ args.finance_costs_in_loan) =>
           LastGain(ret.high) < LastGain(ret.low)
    /\ Done("render_enpv_analysis") =>
           NotEarlier(ret.low.breakeven_month, ret.high.breakeven_month)

\* C25: closing costs that are not financed leave the net gain as it is
C25_UnfinancedCostsIgnored ==
    (op = "render_enpv_analysis" /\ pc = "loop" /\ ret.low.t >= 1 /\ ~args.finance_costs_in_loan) =>
        LastGain(ret.high) = LastGain(ret.low)

\* C25: closing costs of 3000 and of 6000, not financed, and the same positive
\* net gain in month 12
C25_SameGainUnfinanced ==
    /\ op = "render_enpv_analysis"
    /\ pc = "loop"
    /\ ~args.finance_costs_in_loan
    /\ args.closing_costs = <<3000 * MS, 6000 * MS>>
    /\ ret.low.t = 12
    /\ LastGain(ret.low) > 0
    /\ LastGain(ret.high) = LastGain(ret.low)

\* C25: financed closing costs delay the break-even month
C25_FinancedBreakEvenLater ==
    /\ Done("render_enpv_analysis")
    /\ args.finance_costs_in_loan
    /\ ret.low.breakeven_month # None
    /\ ret.high.breakeven_month # None
    /\ ret.high.breakeven_month[1] > ret.low.breakeven_month[1]


\* a month of the simulation has been simulated
MonthSimulated == op = "render_rent_vs_buy" /\ pc = "loop" /\ ret.months_done >= 1

\* PMI is charged only in a month that starts with an LTV above 78%
PmiOnlyAbove78 ==
    (MonthSimulated /\ ret.pmi_charged) => ret.ltv_before > 780 * (PS \div 1000)

\* after a month without PMI the next month is without PMI
PmiStaysOff ==
    (MonthSimulated /\ ~ret.pmi_charged /\ pc' = "loop") => ~ret'.pmi_charged

\* C26: PMI is charged only while the balance exceeds 78% of the reference home
\* price, and after a month without PMI it is never charged again
C26_PmiPhasesOutForGood == [](PmiOnlyAbove78) /\ [][PmiStaysOff]_vars

\* C26, the first half: PMI is charged only above 78% LTV
C26_PmiOnlyAbove78 == PmiOnlyAbove78

\* C26 for homes that do not lose value
C26_PmiStaysOffWithoutDepreciation == [][args.rb_home_appreciation >= 0 => PmiStaysOff]_vars

\* C26: with 20% down, -5% appreciation and a move every 7 years, PMI had
\* stopped and is charged again in the first month of year 8
C26_PmiResumed ==
    /\ MonthSimulated
    /\ args.rb_down_payment_pct = 200 * (PS \div 1000)
    /\ args.rb_home_appreciation = -50 * (PS \div 1000)
    /\ args.rb_years_before_move = 7
    /\ ret.year = 7
    /\ ret.month = 1
    /\ ret.pmi_charged
    /\ ret.monthly_pmi > 0

\* C26: PMI has stopped in the third year of a loan of 80% of the price
C26_PmiStopped ==
    /\ MonthSimulated
    /\ args.rb_down_payment_pct = 200 * (PS \div 1000)
    /\ ret.year = 2
    /\ ~ret.pmi_charged
    /\ ret.current_loan_balance > 0



\* C28: every account the public registration form creates is stored with the
\* role 'loan_officer'; self-registration never creates an admin
C28_RegistrationStoresLoanOfficer == [][RegistrationForm => \A user \in db'.users \ db.users : user.role = Some("loan_officer")]_vars

\* C28: the registration form never adds a row with the role 'admin'
C28_RegistrationNeverAdmin == [][RegistrationForm => \A user \in db'.users \ db.users : user.role # Some("admin")]_vars

\* a self-registered account (nobody was logged in yet, so the Add User form
\* was never reached) holds the role 'admin'
C28_SelfRegisteredAdmin ==
    /\ db # NoDatabase
    /\ op = "main"
    /\ \E user \in db.users : user.username = "eve" /\ user.role = Some("admin") /\ user.full_name = Some("") /\ user.email = None

\* the client the current page renders: get_client_by_id of the id the page reads
RenderedClientId ==
    CASE session.page = "view_client" -> session.selected_client_id
      [] session.page = "edit_client" -> session.edit_client_id
      [] session.page = "delete_client" -> session.delete_client_id
      [] OTHER -> None

OnClientPage == op = "main" /\ db # NoDatabase /\ session.authenticated /\ session.page \in {"view_client", "edit_client", "delete_client"}

\* C29: in every session state the client rendered on the view, edit or
\* delete page belongs to the logged-in user
C29_RenderedClientIsOwn ==
    OnClientPage => \A client \in db.clients : Some(client.id) = RenderedClientId => Some(client.loan_officer_id) = session.user_id

\* a logged-in user is on the delete page of another user's client
C29_OtherUsersClientRendered ==
    /\ OnClientPage
    /\ session.page = "delete_client"
    /\ \E client \in db.clients : Some(client.id) = RenderedClientId /\ Some(client.loan_officer_id) # session.user_id

\* C29: the dashboard's buttons lead to clients of the logged-in user only
C29_SelectedClientIsOwn == [][SelectClient => \A client \in db.clients : Some(client.id) = RenderedClientId' => Some(client.loan_officer_id) = session.user_id]_vars

\* C30: every client's loan_officer_id refers to an existing user
C30_OwnerExists ==
    (op = "main" /\ db # NoDatabase) => \A client \in db.clients : \E user \in db.users : user.id = client.loan_officer_id

\* C30: where foreign keys are enforced every client's owner exists
C30_OwnerExistsEnforced ==
    (op = "main" /\ db # NoDatabase /\ db.foreign_keys) => \A client \in db.clients : \E user \in db.users : user.id = client.loan_officer_id

\* a client row is left whose owner the admin has deleted
C30_ClientOfDeletedUser ==
    /\ op = "main"
    /\ db # NoDatabase
    /\ ~db.foreign_keys
    /\ \E client \in db.clients : client.loan_officer_id = 2 /\ \A user \in db.users : user.id # 2

=============================================================================
